---------------------------- MODULE Spec2Model ----------------------------
(***************************************************************************)
(* A model of Visual Leak Detector's core (src/src/vld.cpp): the heap /    *)
(* block ledger (mapHeap, mapBlock, unmapBlock, unmapHeap, remapBlock),    *)
(* the leak reporter (getLeaksCount, reportLeaks, eraseDuplicates,         *)
(* markAllLeaksAsReported), the per-thread enable / disable flags and the  *)
(* CaptureContext protocol.                                                *)
(*                                                                         *)
(* The allocation hooks (the callers of CaptureContext), the Map           *)
(* containers, the stack walker and the CRT's block headers are not part   *)
(* of vld.cpp; they are modelled by what vld.cpp requires of them.         *)
(*                                                                         *)
(* The model is of an installed detector: the constructor ran to line 503  *)
(* with VLD_OPT_VLDOFF clear (with it set the constructor returns at line  *)
(* 380 before the ledger exists and every public operation returns at its  *)
(* first statement).                                                       *)
(***************************************************************************)
EXTENDS Integers, Sequences, FiniteSets, TLC

(***************************************************************************)
(* Bounds of the model.                                                    *)
(***************************************************************************)
MaxAddr == 2
MaxSerial == 4
\* The number of allocations of a run of the report.
MaxBlocks == 2

\* SIZE_T is modelled as an 8 bit word.
SIZE_MAX == 255

NULL == 0
Heaps == {1, 2}
Threads == {1, 2}
Addrs == 1..MaxAddr
Sizes == {1, 2}
\* The contents of a captured call stack (its frames), as a value.
Stacks == {1, 2}
\* Addresses of blockinfo_t objects on the free store.
Ptrs == 1..(Cardinality(Heaps) * MaxAddr + MaxSerial)

VARIABLES
    m_heapMap,      \* heap handle -> heapinfo_t (its blockMap: address -> blockinfo_t*)
    blockinfos,     \* the allocated blockinfo_t objects: pointer -> fields
    m_requestCurr,  \* next serial number
    m_totalAlloc,   \* total bytes allocated
    m_curAlloc,     \* current live bytes
    m_maxAlloc,     \* peak live bytes
    m_options,      \* the option bits that are set
    reportLog,      \* the Report() diagnostics the last ledger operation emitted
    memHdr,         \* address -> what the memory at the address holds where a CRT debug
                    \*   block header would be
    leakEntries,    \* the leak entries the last operation wrote to the report
    retval,         \* the value the last query returned
    m_status,       \* the status bits that are set
    m_tlsMap,       \* thread id -> tls_t, for the threads that have one
    ccStack,        \* thread id -> the CaptureContext objects on the thread's stack
    suspended,      \* history: thread id -> whether the thread's last control call was
                    \*   DisableLeakDetection, and whether another thread has called
                    \*   GlobalEnableLeakDetection since
    markSerial,     \* history: m_requestCurr at the last MarkAllLeaksAsReported (0: none)
    ref,            \* history: (heap, address) -> the size given to the mapBlock that was
                    \*   the most recent operation on that address, where it was one
    patch,          \* the NTDLL_LDR_PATCH of the loader hook
    ntdll,          \* the loader's code around the call of a module's entry point, and
                    \*   the spare bytes at the end of its memory region
    patched,        \* history: a NtDllPatch has completed successfully
    image,          \* history: the bytes of the loader's code as the process mapped
                    \*   them, and from the successful NtDllPatch on, as they were
                    \*   when it was called
    g_heapMapLock,  \* the thread that owns the critical section (0: none)
    inCall,         \* thread id -> the ledger operation the thread is in, where it is
                    \*   in it, and what it has read of the ledger
    serial,         \* history: the ledger that the operations leave when each runs
                    \*   alone, in the order in which they took g_heapMapLock
    process,        \* the modules loaded in the process (their base addresses)
    moduleSets,     \* the allocated ModuleSet objects: pointer -> (base -> flags)
    m_loadedModules,\* pointer to the ModuleSet in use
    m_patchTable,   \* the patch table: index -> moduleentry_t
    m_dbghlpBase,   \* base address of dbghelp.dll
    attached,       \* the modules whose imports are patched
    loaderLock,     \* the thread that holds the loader lock, 0 when it is free
    hookCall,       \* thread -> its call of LdrpCallInitRoutine in progress
    waiter,         \* the call of waitForAllVLDThreads: its locals and its position
    exit,           \* the process's detach: its position, and the history of its steps
    locks,          \* critical section -> the thread that owns it (0: none) and the
                    \*   number of times the owner has entered it
    calls,          \* thread -> its operation in progress: the steps it has left, and
                    \*   what it has read of the module registry
    lastOp          \* the last operation performed and its arguments

ledgerVars == <<m_heapMap, blockinfos, m_requestCurr, m_totalAlloc, m_curAlloc, m_maxAlloc>>
outVars == <<leakEntries, retval>>
threadVars == <<m_status, m_tlsMap, ccStack, suspended>>
loaderVars == <<patch, ntdll, patched, image>>
lockVars == <<g_heapMapLock, inCall, serial>>
moduleVars == <<process, moduleSets, m_loadedModules, m_patchTable, m_dbghlpBase, attached>>
csVars == <<locks, calls>>
processVars == <<loaderLock, hookCall, waiter, exit, csVars>>
vars == <<m_heapMap, blockinfos, m_requestCurr, m_totalAlloc, m_curAlloc, m_maxAlloc,
          m_options, reportLog, memHdr, leakEntries, retval, m_status, m_tlsMap, ccStack,
          suspended, markSerial, ref, patch, ntdll, patched, image, g_heapMapLock, inCall,
          serial, process, moduleSets, m_loadedModules, m_patchTable, m_dbghlpBase,
          attached, loaderLock, hookCall, waiter, exit, locks, calls,
          lastOp>>

(***************************************************************************)
(* Helpers.                                                                *)
(***************************************************************************)
EmptyMap == [x \in {} |-> NULL]

\* SIZE_T arithmetic wraps modulo 2^w.
Wrap(x) == (x + (SIZE_MAX + 1)) % (SIZE_MAX + 1)

MapErase(m, k) == [x \in (DOMAIN m) \ {k} |-> m[x]]
MapPut(m, k, v) == [x \in (DOMAIN m) \cup {k} |-> IF x = k THEN v ELSE m[x]]

\* operator new: the lowest free address.
NewPtr(infos) == CHOOSE p \in Ptrs : /\ p \notin DOMAIN infos
                                     /\ \A q \in Ptrs : q < p => q \in DOMAIN infos

\* The ledger as one value, so that the operations compose as in the code.
Ledger ==
    [heapMap |-> m_heapMap, blockinfos |-> blockinfos, requestCurr |-> m_requestCurr,
     totalAlloc |-> m_totalAlloc, curAlloc |-> m_curAlloc, maxAlloc |-> m_maxAlloc,
     log |-> <<>>, pblockInfo |-> NULL]

NoLedger ==
    [heapMap |-> EmptyMap, blockinfos |-> EmptyMap, requestCurr |-> 1, totalAlloc |-> 0,
     curAlloc |-> 0, maxAlloc |-> 0, log |-> <<>>, pblockInfo |-> NULL]

SetLedger(L) ==
    /\ m_heapMap' = L.heapMap
    /\ blockinfos' = L.blockinfos
    /\ m_requestCurr' = L.requestCurr
    /\ m_totalAlloc' = L.totalAlloc
    /\ m_curAlloc' = L.curAlloc
    /\ m_maxAlloc' = L.maxAlloc
    /\ reportLog' = L.log

RECURSIVE SumOver(_, _)
SumOver(f, S) == IF S = {} THEN 0
                 ELSE LET x == CHOOSE y \in S : TRUE IN f[x] + SumOver(f, S \ {x})

(***************************************************************************)
(* The ledger operations.                                                  *)
(***************************************************************************)

\* unmapHeap without the "m_curAlloc -= (*blockit).second->size" of line 1525.
unmapHeap_NoSubtract(L, heap) ==
    IF heap \notin DOMAIN L.heapMap THEN L
    ELSE LET blockmap == L.heapMap[heap].blockMap
             owned == {blockmap[a] : a \in DOMAIN blockmap}
         IN [L EXCEPT !.blockinfos = [p \in (DOMAIN L.blockinfos) \ owned |-> L.blockinfos[p]],
                      !.heapMap = MapErase(L.heapMap, heap)]

\* unmapHeap: frees every blockinfo_t of the heap and removes the heap.
unmapHeap(L, heap) ==
    IF heap \notin DOMAIN L.heapMap THEN L
    ELSE LET blockmap == L.heapMap[heap].blockMap
             owned == {blockmap[a] : a \in DOMAIN blockmap}
             sizes == [p \in owned |-> L.blockinfos[p].size]
         IN [L EXCEPT !.curAlloc = Wrap(L.curAlloc - (SumOver(sizes, owned) % (SIZE_MAX + 1))),
                      !.blockinfos = [p \in (DOMAIN L.blockinfos) \ owned |-> L.blockinfos[p]],
                      !.heapMap = MapErase(L.heapMap, heap)]

\* mapHeap that replaces the record of a duplicate heap without the unmapHeap of
\* line 1422.
mapHeap_NoEvict(L, heap) ==
    LET heapinfo == [blockMap |-> EmptyMap, flags |-> 0]
    IN IF heap \notin DOMAIN L.heapMap
       THEN [L EXCEPT !.heapMap = MapPut(L.heapMap, heap, heapinfo)]
       ELSE [L EXCEPT !.log = Append(L.log, "duplicate heap"),
                      !.heapMap = MapPut(L.heapMap, heap, heapinfo)]

\* mapHeap: a new, empty block map for the heap; a duplicate heap is evicted first.
mapHeap(L, heap) ==
    LET heapinfo == [blockMap |-> EmptyMap, flags |-> 0]
    IN IF heap \notin DOMAIN L.heapMap
       THEN [L EXCEPT !.heapMap = MapPut(L.heapMap, heap, heapinfo)]
       ELSE LET W == [L EXCEPT !.log = Append(L.log, "duplicate heap")]
                U == unmapHeap(W, heap)
            IN [U EXCEPT !.heapMap = MapPut(U.heapMap, heap, heapinfo)]

\* mapBlock without the "m_curAlloc -= info->size" of line 1388.
mapBlock_NoSubtract(L, heap, mem, size, debugcrtalloc, ucrt, threadId) ==
    LET ptr == NewPtr(L.blockinfos)
        blockinfo == [callStack |-> NULL, threadId |-> threadId,
                      serialNumber |-> L.requestCurr, size |-> size, reported |-> FALSE,
                      debugCrtAlloc |-> debugcrtalloc, ucrt |-> ucrt]
        total == IF SIZE_MAX - L.totalAlloc > size THEN L.totalAlloc + size ELSE SIZE_MAX
        cur == Wrap(L.curAlloc + size)
        A == [L EXCEPT !.blockinfos = MapPut(L.blockinfos, ptr, blockinfo),
                       !.pblockInfo = ptr,
                       !.requestCurr = L.requestCurr + 1,
                       !.totalAlloc = total,
                       !.curAlloc = cur,
                       !.maxAlloc = IF cur > L.maxAlloc THEN cur ELSE L.maxAlloc]
        B == IF heap \notin DOMAIN A.heapMap THEN mapHeap(A, heap) ELSE A
        blockmap == B.heapMap[heap].blockMap
    IN IF mem \notin DOMAIN blockmap
       THEN [B EXCEPT !.heapMap[heap].blockMap = MapPut(blockmap, mem, ptr)]
       ELSE LET info == blockmap[mem]
            IN [B EXCEPT !.log = Append(B.log, "new allocation at already allocated address"),
                         !.blockinfos = MapErase(B.blockinfos, info),
                         !.heapMap[heap].blockMap = MapPut(MapErase(blockmap, mem), mem, ptr)]

\* mapBlock without the "delete info" of line 1390.
mapBlock_LeakOld(L, heap, mem, size, debugcrtalloc, ucrt, threadId) ==
    LET ptr == NewPtr(L.blockinfos)
        blockinfo == [callStack |-> NULL, threadId |-> threadId,
                      serialNumber |-> L.requestCurr, size |-> size, reported |-> FALSE,
                      debugCrtAlloc |-> debugcrtalloc, ucrt |-> ucrt]
        total == IF SIZE_MAX - L.totalAlloc > size THEN L.totalAlloc + size ELSE SIZE_MAX
        cur == Wrap(L.curAlloc + size)
        A == [L EXCEPT !.blockinfos = MapPut(L.blockinfos, ptr, blockinfo),
                       !.pblockInfo = ptr,
                       !.requestCurr = L.requestCurr + 1,
                       !.totalAlloc = total,
                       !.curAlloc = cur,
                       !.maxAlloc = IF cur > L.maxAlloc THEN cur ELSE L.maxAlloc]
        B == IF heap \notin DOMAIN A.heapMap THEN mapHeap(A, heap) ELSE A
        blockmap == B.heapMap[heap].blockMap
    IN IF mem \notin DOMAIN blockmap
       THEN [B EXCEPT !.heapMap[heap].blockMap = MapPut(blockmap, mem, ptr)]
       ELSE LET info == blockmap[mem]
            IN [B EXCEPT !.curAlloc = Wrap(B.curAlloc - B.blockinfos[info].size),
                         !.log = Append(B.log, "new allocation at already allocated address"),
                         !.heapMap[heap].blockMap = MapPut(MapErase(blockmap, mem), mem, ptr)]

\* mapBlock: a new blockinfo_t, the counters, and the insertion into the heap's map.
mapBlock(L, heap, mem, size, debugcrtalloc, ucrt, threadId) ==
    LET ptr == NewPtr(L.blockinfos)
        blockinfo == [callStack |-> NULL, threadId |-> threadId,
                      serialNumber |-> L.requestCurr, size |-> size, reported |-> FALSE,
                      debugCrtAlloc |-> debugcrtalloc, ucrt |-> ucrt]
        total == IF SIZE_MAX - L.totalAlloc > size THEN L.totalAlloc + size ELSE SIZE_MAX
        cur == Wrap(L.curAlloc + size)
        A == [L EXCEPT !.blockinfos = MapPut(L.blockinfos, ptr, blockinfo),
                       !.pblockInfo = ptr,
                       !.requestCurr = L.requestCurr + 1,
                       !.totalAlloc = total,
                       !.curAlloc = cur,
                       !.maxAlloc = IF cur > L.maxAlloc THEN cur ELSE L.maxAlloc]
        B == IF heap \notin DOMAIN A.heapMap THEN mapHeap(A, heap) ELSE A
        blockmap == B.heapMap[heap].blockMap
    IN IF mem \notin DOMAIN blockmap
       THEN [B EXCEPT !.heapMap[heap].blockMap = MapPut(blockmap, mem, ptr)]
       ELSE LET info == blockmap[mem]
            IN [B EXCEPT !.curAlloc = Wrap(B.curAlloc - B.blockinfos[info].size),
                         !.log = Append(B.log, "new allocation at already allocated address"),
                         !.blockinfos = MapErase(B.blockinfos, info),
                         !.heapMap[heap].blockMap = MapPut(MapErase(blockmap, mem), mem, ptr)]

\* The keys of a map in iteration order (ascending).
RECURSIVE SortedSeq(_)
SortedSeq(S) == IF S = {} THEN <<>>
                ELSE LET m == CHOOSE x \in S : \A y \in S : x <= y
                     IN <<m>> \o SortedSeq(S \ {m})

\* findAllocedBlock: the first heap, in iteration order, that tracks mem.
findAllocedBlock(L, mem) ==
    LET holders == {h \in DOMAIN L.heapMap : mem \in DOMAIN L.heapMap[h].blockMap}
    IN IF holders = {} THEN [heap |-> NULL, result |-> NULL]
       ELSE LET h == Head(SortedSeq(holders))
            IN [heap |-> h, result |-> L.heapMap[h].blockMap[mem]]

\* unmapBlock that frees the block from whichever heap tracks the address.
unmapBlock_AnyHeap(L, heap, mem) ==
    LET found == findAllocedBlock(L, mem)
    IN IF mem = NULL \/ found.result = NULL THEN L
       ELSE [L EXCEPT !.curAlloc = Wrap(L.curAlloc - L.blockinfos[found.result].size),
                      !.blockinfos = MapErase(L.blockinfos, found.result),
                      !.heapMap[found.heap].blockMap =
                          MapErase(L.heapMap[found.heap].blockMap, mem)]

\* unmapBlock without the "m_curAlloc -= info->size" of line 1496.
unmapBlock_NoSubtract(L, heap, mem) ==
    IF mem = NULL THEN L
    ELSE IF heap \notin DOMAIN L.heapMap THEN L
    ELSE IF mem \notin DOMAIN L.heapMap[heap].blockMap THEN L
    ELSE LET info == L.heapMap[heap].blockMap[mem]
         IN [L EXCEPT !.blockinfos = MapErase(L.blockinfos, info),
                      !.heapMap[heap].blockMap = MapErase(L.heapMap[heap].blockMap, mem)]

\* unmapBlock: removes and frees the blockinfo_t of an address; a miss changes nothing.
unmapBlock(L, heap, mem) ==
    IF mem = NULL THEN L
    ELSE IF heap \notin DOMAIN L.heapMap THEN L
    ELSE IF mem \notin DOMAIN L.heapMap[heap].blockMap
    THEN IF "VLD_OPT_VALIDATE_HEAPFREE" \in m_options
         THEN LET found == findAllocedBlock(L, mem)
              IN IF /\ found.result # NULL
                    /\ L.blockinfos[found.result].callStack # NULL
                    /\ found.heap # heap
                 THEN [L EXCEPT !.log = Append(L.log, "allocated in one heap and freed in another")]
                 ELSE L
         ELSE L
    ELSE LET info == L.heapMap[heap].blockMap[mem]
         IN [L EXCEPT !.curAlloc = Wrap(L.curAlloc - L.blockinfos[info].size),
                      !.blockinfos = MapErase(L.blockinfos, info),
                      !.heapMap[heap].blockMap = MapErase(L.heapMap[heap].blockMap, mem)]

\* remapBlock that treats every reallocation as a new allocation.
remapBlock_AsNew(L, heap, mem, newmem, size, debugcrtalloc, ucrt, threadId) ==
    IF newmem # mem
    THEN mapBlock(unmapBlock(L, heap, mem), heap, newmem, size, debugcrtalloc, ucrt, threadId)
    ELSE mapBlock(L, heap, newmem, size, debugcrtalloc, ucrt, threadId)

\* remapBlock, lines 1575-1623: the block was reallocated in place.
remapInPlace(L, heap, mem, newmem, size, debugcrtalloc, ucrt, threadId) ==
    IF heap \notin DOMAIN L.heapMap
    THEN mapBlock(L, heap, newmem, size, debugcrtalloc, ucrt, threadId)
    ELSE IF mem \notin DOMAIN L.heapMap[heap].blockMap
    THEN mapBlock(L, heap, newmem, size, debugcrtalloc, ucrt, threadId)
    ELSE LET info == L.heapMap[heap].blockMap[mem]
             old == L.blockinfos[info]
             total == IF L.totalAlloc < SIZE_MAX
                      THEN LET less == Wrap(L.totalAlloc - old.size)
                           IN IF SIZE_MAX - less > size THEN less + size ELSE SIZE_MAX
                      ELSE L.totalAlloc
             cur == Wrap(Wrap(L.curAlloc - old.size) + size)
         IN [L EXCEPT !.blockinfos[info].callStack = NULL,
                      !.totalAlloc = total,
                      !.curAlloc = cur,
                      !.maxAlloc = IF cur > L.maxAlloc THEN cur ELSE L.maxAlloc,
                      !.blockinfos[info].threadId = threadId,
                      !.blockinfos[info].size = size,
                      !.pblockInfo = info]

\* remapBlock without the unmapBlock of line 1570.
remapBlock_NoUnmap(L, heap, mem, newmem, size, debugcrtalloc, ucrt, threadId) ==
    IF newmem # mem
    THEN mapBlock(L, heap, newmem, size, debugcrtalloc, ucrt, threadId)
    ELSE remapInPlace(L, heap, mem, newmem, size, debugcrtalloc, ucrt, threadId)

\* remapBlock: unmap + map when the address changed, an update in place otherwise.
remapBlock(L, heap, mem, newmem, size, debugcrtalloc, ucrt, threadId) ==
    IF newmem # mem
    THEN mapBlock(unmapBlock(L, heap, mem), heap, newmem, size, debugcrtalloc, ucrt, threadId)
    ELSE remapInPlace(L, heap, mem, newmem, size, debugcrtalloc, ucrt, threadId)

\* ~CaptureContext, lines 2928-2951: the commit of an allocation (newmem = NULL) or of
\* a reallocation, and then the capture of the call stack into the committed blockinfo_t.
commit(L, heap, mem, newmem, size, debugcrtalloc, ucrt, threadId, callstack) ==
    LET M == IF newmem = NULL
             THEN mapBlock(L, heap, mem, size, debugcrtalloc, ucrt, threadId)
             ELSE remapBlock(L, heap, mem, newmem, size, debugcrtalloc, ucrt, threadId)
    IN [M EXCEPT !.blockinfos[M.pblockInfo].callStack = callstack]

(***************************************************************************)
(* The leak reporter.                                                      *)
(***************************************************************************)
\* The threadId argument that selects the blocks of every thread, (DWORD)-1.
AnyThread == -1

\* sizeof(crtdbgblockheader_t) + GAPSIZE, in the model's 8 bit words.
CrtOverhead == 1

\* CallStack::isCrtStartupAlloc: whether the stack originates in the CRT's startup code.
CrtStartupStacks == {2}
isCrtStartupAlloc(callStack) == callStack \in CrtStartupStacks

\* isDebugCrtAlloc: detects a block of a statically linked CRT by the header the
\* memory holds, and marks the blockinfo_t.
isDebugCrtAlloc(L, block, info) ==
    LET hdr == memHdr[block]
        b == L.blockinfos[info]
        L1 == IF ~b.debugCrtAlloc /\ hdr.valid /\ ~hdr.ucrt
              THEN [L EXCEPT !.blockinfos[info].debugCrtAlloc = TRUE,
                             !.blockinfos[info].ucrt = FALSE]
              ELSE L
        L2 == IF ~L1.blockinfos[info].debugCrtAlloc /\ hdr.valid /\ hdr.ucrt
              THEN [L1 EXCEPT !.blockinfos[info].debugCrtAlloc = TRUE,
                              !.blockinfos[info].ucrt = TRUE]
              ELSE L1
    IN [L |-> L2, result |-> L2.blockinfos[info].debugCrtAlloc]

\* getCrtBlockUse / getCrtBlockSize: the fields of the CRT header at the block.
getCrtBlockUse(block, ucrt) == memHdr[block].use
getCrtBlockSize(L, block, info) == Wrap(L.blockinfos[info].size - CrtOverhead)

\* The blocks the CRT uses internally (or has freed): never leaks.
CrtOwnUse == {"CRT_USE_FREE", "CRT_USE_INTERNAL"}

\* getLeaksCount that skips a CRT startup block without "info->reported = true" (1750).
getLeaksCountStep_NoMark(L, heap, block, threadId, memoryleaks) ==
    LET info == L.heapMap[heap].blockMap[block]
        b == L.blockinfos[info]
        d == isDebugCrtAlloc(L, block, info)
    IN IF b.reported
       THEN [L |-> L, result |-> memoryleaks]
       ELSE IF threadId # AnyThread /\ b.threadId # threadId
       THEN [L |-> L, result |-> memoryleaks]
       ELSE IF d.result /\ getCrtBlockUse(block, d.L.blockinfos[info].ucrt) \in CrtOwnUse
       THEN [L |-> d.L, result |-> memoryleaks]
       ELSE IF /\ "VLD_OPT_SKIP_CRTSTARTUP_LEAKS" \in m_options
               /\ b.callStack # NULL
               /\ isCrtStartupAlloc(b.callStack)
       THEN [L |-> d.L, result |-> memoryleaks]
       ELSE [L |-> d.L, result |-> Wrap(memoryleaks + 1)]

\* getLeaksCount, lines 1721-1756: the body of the loop, for the entry at block.
getLeaksCountStep(L, heap, block, threadId, memoryleaks) ==
    LET info == L.heapMap[heap].blockMap[block]
        b == L.blockinfos[info]
        d == isDebugCrtAlloc(L, block, info)
    IN IF b.reported
       THEN [L |-> L, result |-> memoryleaks]
       ELSE IF threadId # AnyThread /\ b.threadId # threadId
       THEN [L |-> L, result |-> memoryleaks]
       ELSE IF d.result /\ getCrtBlockUse(block, d.L.blockinfos[info].ucrt) \in CrtOwnUse
       THEN [L |-> d.L, result |-> memoryleaks]
       ELSE IF /\ "VLD_OPT_SKIP_CRTSTARTUP_LEAKS" \in m_options
               /\ b.callStack # NULL
               /\ isCrtStartupAlloc(b.callStack)
       THEN [L |-> [d.L EXCEPT !.blockinfos[info].reported = TRUE], result |-> memoryleaks]
       ELSE [L |-> d.L, result |-> Wrap(memoryleaks + 1)]

\* getLeaksCount: the loop over the heap's block map, in the map's order.
RECURSIVE getLeaksCountFrom(_, _, _, _, _)
getLeaksCountFrom(L, heap, keys, threadId, memoryleaks) ==
    IF keys = <<>> THEN [L |-> L, result |-> memoryleaks]
    ELSE LET r == getLeaksCountStep(L, heap, Head(keys), threadId, memoryleaks)
         IN getLeaksCountFrom(r.L, heap, Tail(keys), threadId, r.result)

getLeaksCount(L, heap, threadId) ==
    getLeaksCountFrom(L, heap, SortedSeq(DOMAIN L.heapMap[heap].blockMap), threadId, 0)

\* eraseDuplicates without "aggregatedLeaks.insert(info)" (1278).
eraseDuplicates_NoInsert(L, element, aggregatedLeaks) ==
    LET elementinfo == L.blockinfos[element]
        all == UNION {{L.heapMap[h].blockMap[a] : a \in DOMAIN L.heapMap[h].blockMap} :
                      h \in DOMAIN L.heapMap}
        dups == {info \in all \ {element} :
                    /\ L.blockinfos[info].callStack # NULL
                    /\ info \notin aggregatedLeaks
                    /\ L.blockinfos[info].size = elementinfo.size
                    /\ L.blockinfos[info].callStack = elementinfo.callStack}
    IN IF elementinfo.callStack = NULL
       THEN [erased |-> 0, aggregatedLeaks |-> aggregatedLeaks]
       ELSE [erased |-> Cardinality(dups) % (SIZE_MAX + 1), aggregatedLeaks |-> aggregatedLeaks]

\* eraseDuplicates: the other blocks, of every heap, with the size and the call stack
\* of the element, that no entry has aggregated yet.
eraseDuplicates(L, element, aggregatedLeaks) ==
    LET elementinfo == L.blockinfos[element]
        all == UNION {{L.heapMap[h].blockMap[a] : a \in DOMAIN L.heapMap[h].blockMap} :
                      h \in DOMAIN L.heapMap}
        dups == {info \in all \ {element} :
                    /\ L.blockinfos[info].callStack # NULL
                    /\ info \notin aggregatedLeaks
                    /\ L.blockinfos[info].size = elementinfo.size
                    /\ L.blockinfos[info].callStack = elementinfo.callStack}
    IN IF elementinfo.callStack = NULL
       THEN [erased |-> 0, aggregatedLeaks |-> aggregatedLeaks]
       ELSE [erased |-> Cardinality(dups) % (SIZE_MAX + 1),
             aggregatedLeaks |-> aggregatedLeaks \cup dups]

\* reportLeaks that sets the reported flag of every block that it reports.
reportLeaksStep_Consume(R, heap, block, threadId) ==
    LET info == R.L.heapMap[heap].blockMap[block]
        b == R.L.blockinfos[info]
        d == isDebugCrtAlloc(R.L, block, info)
        size == IF d.result THEN getCrtBlockSize(d.L, block, info) ELSE b.size
        e == IF "VLD_OPT_AGGREGATE_DUPLICATES" \in m_options
             THEN eraseDuplicates(d.L, info, R.aggregatedLeaks)
             ELSE [erased |-> 0, aggregatedLeaks |-> R.aggregatedLeaks]
        blockLeaksCount == Wrap(1 + e.erased)
        entry == [serialNumber |-> b.serialNumber,
                  size |-> size,
                  count |-> blockLeaksCount,
                  total |-> (size * blockLeaksCount) % (SIZE_MAX + 1),
                  threadId |-> IF blockLeaksCount = 1 THEN b.threadId ELSE 0]
    IN IF b.reported
       THEN R
       ELSE IF threadId # AnyThread /\ b.threadId # threadId
       THEN R
       ELSE IF info \in R.aggregatedLeaks
       THEN R
       ELSE IF d.result /\ getCrtBlockUse(block, d.L.blockinfos[info].ucrt) \in CrtOwnUse
       THEN [R EXCEPT !.L = d.L]
       ELSE IF /\ "VLD_OPT_SKIP_CRTSTARTUP_LEAKS" \in m_options
               /\ b.callStack # NULL
               /\ isCrtStartupAlloc(b.callStack)
       THEN [R EXCEPT !.L = [d.L EXCEPT !.blockinfos[info].reported = TRUE]]
       ELSE [L |-> [d.L EXCEPT !.blockinfos[info].reported = TRUE],
             out |-> Append(R.out, entry),
             firstLeak |-> FALSE,
             aggregatedLeaks |-> e.aggregatedLeaks,
             leaksFound |-> Wrap(R.leaksFound + blockLeaksCount)]

\* reportLeaks, lines 1829-1929: the body of the loop, for the entry at block. R carries
\* the ledger (L), the entries written (out), firstLeak, aggregatedLeaks and leaksFound.
reportLeaksStep(R, heap, block, threadId) ==
    LET info == R.L.heapMap[heap].blockMap[block]
        b == R.L.blockinfos[info]
        d == isDebugCrtAlloc(R.L, block, info)
        size == IF d.result THEN getCrtBlockSize(d.L, block, info) ELSE b.size
        e == IF "VLD_OPT_AGGREGATE_DUPLICATES" \in m_options
             THEN eraseDuplicates(d.L, info, R.aggregatedLeaks)
             ELSE [erased |-> 0, aggregatedLeaks |-> R.aggregatedLeaks]
        blockLeaksCount == Wrap(1 + e.erased)
        entry == [serialNumber |-> b.serialNumber,
                  size |-> size,
                  count |-> blockLeaksCount,
                  total |-> (size * blockLeaksCount) % (SIZE_MAX + 1),
                  threadId |-> IF blockLeaksCount = 1 THEN b.threadId ELSE 0]
    IN IF b.reported
       THEN R
       ELSE IF threadId # AnyThread /\ b.threadId # threadId
       THEN R
       ELSE IF info \in R.aggregatedLeaks
       THEN R
       ELSE IF d.result /\ getCrtBlockUse(block, d.L.blockinfos[info].ucrt) \in CrtOwnUse
       THEN [R EXCEPT !.L = d.L]
       ELSE IF /\ "VLD_OPT_SKIP_CRTSTARTUP_LEAKS" \in m_options
               /\ b.callStack # NULL
               /\ isCrtStartupAlloc(b.callStack)
       THEN [R EXCEPT !.L = [d.L EXCEPT !.blockinfos[info].reported = TRUE]]
       ELSE [L |-> d.L,
             out |-> Append(R.out, entry),
             firstLeak |-> FALSE,
             aggregatedLeaks |-> e.aggregatedLeaks,
             leaksFound |-> Wrap(R.leaksFound + blockLeaksCount)]

\* reportLeaks: the loop over the heap's block map, in the map's order.
RECURSIVE reportLeaksFrom(_, _, _, _)
reportLeaksFrom(R, heap, keys, threadId) ==
    IF keys = <<>> THEN R
    ELSE reportLeaksFrom(reportLeaksStep(R, heap, Head(keys), threadId), heap, Tail(keys),
                         threadId)

\* reportLeaks: the leaks found in one heap, and the entries written for them.
reportLeaks(L, out, heap, firstLeak, aggregatedLeaks, threadId) ==
    reportLeaksFrom([L |-> L, out |-> out, firstLeak |-> firstLeak,
                     aggregatedLeaks |-> aggregatedLeaks, leaksFound |-> 0],
                    heap, SortedSeq(DOMAIN L.heapMap[heap].blockMap), threadId)

\* markAllLeaksAsReported with the thread test of line 1941 inverted.
markAllLeaksAsReported_OtherThreads(L, heap, threadId) ==
    LET blockmap == L.heapMap[heap].blockMap
        marked == {blockmap[a] : a \in {x \in DOMAIN blockmap :
                        threadId # AnyThread /\ L.blockinfos[blockmap[x]].threadId # threadId}}
    IN [L EXCEPT !.blockinfos = [p \in DOMAIN L.blockinfos |->
                     IF p \in marked THEN [L.blockinfos[p] EXCEPT !.reported = TRUE]
                     ELSE L.blockinfos[p]]]

\* markAllLeaksAsReported: sets the reported flag of the heap's blocks (of one thread).
markAllLeaksAsReported(L, heap, threadId) ==
    LET blockmap == L.heapMap[heap].blockMap
        marked == {blockmap[a] : a \in {x \in DOMAIN blockmap :
                        threadId = AnyThread \/ L.blockinfos[blockmap[x]].threadId = threadId}}
    IN [L EXCEPT !.blockinfos = [p \in DOMAIN L.blockinfos |->
                     IF p \in marked THEN [L.blockinfos[p] EXCEPT !.reported = TRUE]
                     ELSE L.blockinfos[p]]]

\* GetLeaksCount / GetThreadLeaksCount: the sum over the heaps.
RECURSIVE GetLeaksCountOver(_, _, _, _)
GetLeaksCountOver(L, heaps, threadId, leaksCount) ==
    IF heaps = <<>> THEN [L |-> L, result |-> leaksCount]
    ELSE LET r == getLeaksCount(L, Head(heaps), threadId)
         IN GetLeaksCountOver(r.L, Tail(heaps), threadId, Wrap(leaksCount + r.result))

GetLeaksCount(L, threadId) ==
    IF "VLD_OPT_VLDOFF" \in m_options THEN [L |-> L, result |-> 0]
    ELSE GetLeaksCountOver(L, SortedSeq(DOMAIN L.heapMap), threadId, 0)

\* ReportLeaks / ReportThreadLeaks: one firstLeak and one aggregatedLeaks for the heaps.
RECURSIVE ReportLeaksOver(_, _, _, _)
ReportLeaksOver(R, heaps, threadId, leaksCount) ==
    IF heaps = <<>> THEN [R EXCEPT !.leaksFound = leaksCount]
    ELSE LET r == reportLeaks(R.L, R.out, Head(heaps), R.firstLeak, R.aggregatedLeaks, threadId)
         IN ReportLeaksOver(r, Tail(heaps), threadId, Wrap(leaksCount + r.leaksFound))

ReportLeaks(L, threadId) ==
    LET R == [L |-> L, out |-> <<>>, firstLeak |-> TRUE, aggregatedLeaks |-> {},
              leaksFound |-> 0]
    IN IF "VLD_OPT_VLDOFF" \in m_options THEN R
       ELSE ReportLeaksOver(R, SortedSeq(DOMAIN L.heapMap), threadId, 0)

\* MarkAllLeaksAsReported / MarkThreadLeaksAsReported.
RECURSIVE MarkLeaksOver(_, _, _)
MarkLeaksOver(L, heaps, threadId) ==
    IF heaps = <<>> THEN L
    ELSE MarkLeaksOver(markAllLeaksAsReported(L, Head(heaps), threadId), Tail(heaps), threadId)

MarkAllLeaksAsReported(L, threadId) ==
    IF "VLD_OPT_VLDOFF" \in m_options THEN L
    ELSE MarkLeaksOver(L, SortedSeq(DOMAIN L.heapMap), threadId)

(***************************************************************************)
(* The per-thread state and the enable / disable controls.                 *)
(***************************************************************************)
NullContext == [fp |-> NULL, func |-> NULL]

\* The bits SetOptions can change.
OptionsMask ==
    {"VLD_OPT_AGGREGATE_DUPLICATES", "VLD_OPT_MODULE_LIST_INCLUDE", "VLD_OPT_SAFE_STACK_WALK",
     "VLD_OPT_SLOW_DEBUGGER_DUMP", "VLD_OPT_START_DISABLED", "VLD_OPT_TRACE_INTERNAL_FRAMES",
     "VLD_OPT_SKIP_HEAPFREE_LEAKS", "VLD_OPT_VALIDATE_HEAPFREE",
     "VLD_OPT_SKIP_CRTSTARTUP_LEAKS"}

\* getTls: the thread's tls_t, created on the thread's first call. heap,
\* newBlockWithoutGuard and size are left as operator new left them; nothing reads
\* them before CaptureContext::Set has written them.
getTls(T, t) ==
    IF t \in DOMAIN T THEN T
    ELSE MapPut(T, t, [context |-> NullContext, flags |-> {}, oldFlags |-> {}, threadId |-> t,
                       heap |-> NULL, blockWithoutGuard |-> NULL,
                       newBlockWithoutGuard |-> NULL, size |-> 0])

\* enabled that does not test VLD_TLS_ENABLED: TRUE for every installed detector.
enabled_Always(T, t, status, options) ==
    [T |-> getTls(T, t), result |-> "VLD_STATUS_INSTALLED" \in status]

\* enabled: whether the calling thread tracks allocations; sets the thread's default
\* state on its first call.
enabled(T, t, status, options) ==
    IF "VLD_STATUS_INSTALLED" \notin status THEN [T |-> T, result |-> FALSE]
    ELSE LET U == getTls(T, t)
             flags == U[t].flags
             init == IF "VLD_TLS_DISABLED" \notin flags /\ "VLD_TLS_ENABLED" \notin flags
                     THEN IF "VLD_OPT_START_DISABLED" \in options
                          THEN flags \cup {"VLD_TLS_DISABLED"}
                          ELSE flags \cup {"VLD_TLS_ENABLED"}
                     ELSE flags
         IN [T |-> [U EXCEPT ![t].flags = init], result |-> "VLD_TLS_ENABLED" \in init]

\* DisableLeakDetection, on thread t.
DisableLeakDetection(T, t, options) ==
    IF "VLD_OPT_VLDOFF" \in options THEN T
    ELSE LET U == getTls(T, t)
         IN [U EXCEPT ![t].oldFlags = U[t].flags,
                      ![t].flags = (U[t].flags \ {"VLD_TLS_ENABLED"}) \cup {"VLD_TLS_DISABLED"}]

\* EnableLeakDetection, on thread t (the caller clears VLD_STATUS_NEVER_ENABLED).
EnableLeakDetection(T, t, options) ==
    IF "VLD_OPT_VLDOFF" \in options THEN T
    ELSE LET U == getTls(T, t)
         IN [U EXCEPT ![t].oldFlags = U[t].flags,
                      ![t].flags = (U[t].flags \ {"VLD_TLS_DISABLED"}) \cup {"VLD_TLS_ENABLED"}]

\* RestoreLeakDetectionState, on thread t.
RestoreLeakDetectionState(T, t, options) ==
    IF "VLD_OPT_VLDOFF" \in options THEN T
    ELSE LET U == getTls(T, t)
             both == {"VLD_TLS_DISABLED", "VLD_TLS_ENABLED"}
         IN [U EXCEPT ![t].flags = (U[t].flags \ both) \cup (U[t].oldFlags \cap both)]

\* GlobalDisableLeakDetection: the option, and every tls_t of the map.
GlobalDisableLeakDetection(T, options) ==
    IF "VLD_OPT_VLDOFF" \in options THEN [T |-> T, options |-> options]
    ELSE [T |-> [u \in DOMAIN T |->
                    [T[u] EXCEPT !.oldFlags = T[u].flags,
                                 !.flags = (T[u].flags \ {"VLD_TLS_ENABLED"})
                                           \cup {"VLD_TLS_DISABLED"}]],
          options |-> options \cup {"VLD_OPT_START_DISABLED"}]

\* GlobalEnableLeakDetection: the option, and every tls_t of the map.
GlobalEnableLeakDetection(T, options) ==
    IF "VLD_OPT_VLDOFF" \in options THEN [T |-> T, options |-> options]
    ELSE [T |-> [u \in DOMAIN T |->
                    [T[u] EXCEPT !.oldFlags = T[u].flags,
                                 !.flags = (T[u].flags \ {"VLD_TLS_DISABLED"})
                                           \cup {"VLD_TLS_ENABLED"}]],
          options |-> options \ {"VLD_OPT_START_DISABLED"}]

\* SetOptions: replaces the bits of OptionsMask; disables every thread when
\* VLD_OPT_START_DISABLED is among them.
SetOptions(T, options, option_mask) ==
    IF "VLD_OPT_VLDOFF" \in options THEN [T |-> T, options |-> options]
    ELSE LET o == (options \ OptionsMask) \cup (option_mask \cap OptionsMask)
                  \cup (option_mask \cap {"VLD_OPT_START_DISABLED"})
         IN IF "VLD_OPT_START_DISABLED" \in o
            THEN GlobalDisableLeakDetection(T, o)
            ELSE [T |-> T, options |-> o]

(***************************************************************************)
(* The loader hook. The loader's code is an array of bytes: the memory     *)
(* region that holds the return address of the loader's call of a module   *)
(* entry point. The build is _WIN64.                                       *)
(***************************************************************************)
\* _countof of the instruction templates ptr, mov, jmp and call (_WIN64).
PtrSize == 3
MovSize == 10
JmpSize == 5
CallSize == 2

\* The return address of the loader's call of a module entry point, and the end of the
\* memory region that holds it; the region begins at address 0, where nothing is.
ReturnAddress == 64
RegionEnd == 128
Region == 0..(RegionEnd - 1)

\* & on bytes and on DWORDs.
RECURSIVE BitAnd(_, _)
BitAnd(a, b) ==
    IF a = 0 \/ b = 0 THEN 0
    ELSE (a % 2) * (b % 2) + 2 * BitAnd(a \div 2, b \div 2)

\* A DWORD is its four bytes as they lie in memory. DWordBytes is the DWORD of an
\* integer between -2^24 and 2^24, Low24 the value of the three low bytes, and
\* DWordAdd the sum, modulo 2^32, of a DWORD and such an integer.
DWordBytes(x) ==
    LET y == IF x < 0 THEN x + 16777216 ELSE x
    IN <<y % 256, (y \div 256) % 256, (y \div 65536) % 256, IF x < 0 THEN 255 ELSE 0>>
Low24(d) == d[1] + 256 * d[2] + 65536 * d[3]
DWordAdd(d, k) ==
    LET sum == Low24(d) + k
        low == sum % 16777216
        carry == (sum - low) \div 16777216
    IN <<low % 256, (low \div 256) % 256, (low \div 65536) % 256, (d[4] + carry) % 256>>

\* memcpy of the bytes src to address dst, memset of n bytes, and the n bytes at a.
MemCpy(bytes, dst, src) ==
    [a \in DOMAIN bytes |->
        IF a >= dst /\ a < dst + Len(src) THEN src[a - dst + 1] ELSE bytes[a]]
MemSet(bytes, dst, v, n) ==
    [a \in DOMAIN bytes |-> IF a >= dst /\ a < dst + n THEN v ELSE bytes[a]]
BytesAt(bytes, a, n) == [i \in 1..n |-> bytes[a + i - 1]]

\* The zero-initialised global patch, and the memory before the process has mapped
\* the loader's code.
BackupSize == 32
NoPatch == [pPatchAddress |-> NULL, nPatchSize |-> 0, pBackup |-> [i \in 1..BackupSize |-> 0],
            pDetourAddress |-> NULL, nDetourSize |-> 0, bState |-> FALSE]
NoLayout == [mapped |-> FALSE, bytes |-> [a \in Region |-> 0]]

\* The layouts of the loader's code: how many bytes before the return address the
\* instruction that loads the third parameter (mov r8, rbp) and the call instruction
\* (call rax, or call r9 with its prefix) begin, 0 where the loader has no such
\* instruction; how many zero bytes end the region; and whether the call is
\* dispatched through __guard_dispatch_icall_fptr (mov rax, r12 and
\* mov r9, [rip + rel32] precede it).
ParamDistances == {0, 5, 7, 12, 16}
CallDistances == {0, 2, 3}
SpareSizes == {0, 16, 32, 48}
Filler == 204
LoaderCode(param, call, spare, guard) ==
    LET b0 == [a \in Region |-> IF a >= RegionEnd - spare THEN 0 ELSE Filler]
        b1 == IF param # 0 THEN MemCpy(b0, ReturnAddress - param, <<76, 139, 197>>) ELSE b0
        b2 == IF guard
              THEN MemCpy(b1, ReturnAddress - 13, <<73, 139, 196, 76, 139, 13, 16, 32, 0, 0>>)
              ELSE b1
    IN IF call = 2 THEN MemCpy(b2, ReturnAddress - 2, <<255, 208>>)
       ELSE IF call = 3 THEN MemCpy(b2, ReturnAddress - 3, <<65, 255, 209>>)
       ELSE b2

\* The address of LdrpCallInitRoutine as the eight bytes of the mov's operand.
HookAddressBytes == <<17, 34, 51, 68, 85, 102, 119, 0>>

RECURSIVE FindDetourFrom(_, _, _, _, _)
\* The loop of NtDllFindDetourAddress (110-113).
FindDetourFrom(bytes, pAddress, dwSize, begin, end) ==
    IF end - begin < dwSize /\ begin # pAddress
    THEN FindDetourFrom(bytes, pAddress, dwSize, begin - 1,
                        IF bytes[begin - 1] # 0 THEN begin - 1 ELSE end)
    ELSE begin

\* NtDllFindDetourAddress: the start of dwSize zero bytes, the last such run before
\* the end of the region, or NULL.
NtDllFindDetourAddress(M, pAddress, dwSize) ==
    LET begin == FindDetourFrom(M.bytes, pAddress, dwSize, RegionEnd, RegionEnd)
    IN IF begin # pAddress THEN begin ELSE NULL

RECURSIVE FindParamFrom(_, _, _)
\* The loop of NtDllFindParamAddress, ptr being the address already decremented.
FindParamFrom(bytes, pAddress, ptr) ==
    IF pAddress - ptr < 32
    THEN IF /\ BitAnd(bytes[ptr], 77) >= 76
            /\ bytes[ptr + 1] = 139
            /\ BitAnd(bytes[ptr + 2], 199) = bytes[ptr + 2]
         THEN ptr
         ELSE FindParamFrom(bytes, pAddress, ptr - 1)
    ELSE NULL

NtDllFindParamAddress(M, pAddress) == FindParamFrom(M.bytes, pAddress, pAddress - 1)

RECURSIVE FindCallFrom(_, _, _)
\* The loop of NtDllFindCallAddress.
FindCallFrom(bytes, pAddress, ptr) ==
    IF pAddress - ptr < 32
    THEN IF bytes[ptr] = 255 /\ BitAnd(bytes[ptr + 1], 215) = bytes[ptr + 1]
         THEN (IF BitAnd(bytes[ptr - 1], 65) = bytes[ptr - 1] THEN ptr - 1 ELSE ptr)
         ELSE FindCallFrom(bytes, pAddress, ptr - 1)
    ELSE NULL

NtDllFindCallAddress(M, pAddress) == FindCallFrom(M.bytes, pAddress, pAddress - 1)

\* The bytes that NtDllPatch writes to the detour (200-235).
DetourBytes(bytes, pPatchAddress, pCallAddress, pReturnAddress, pDetourAddress, nParamSize, nDetourSize) ==
    LET d0 == MemSet(bytes, pDetourAddress, 144, nDetourSize)
        d1 == MemCpy(d0, pDetourAddress, BytesAt(bytes, pPatchAddress, nParamSize))
        icall == pPatchAddress + nParamSize - 7
        guarded == BitAnd(Low24(BytesAt(bytes, icall, 4)), 887628) = 887628
        fptr == DWordAdd(BytesAt(bytes, icall + 3, 4), 7 - (pDetourAddress - pPatchAddress))
        d2 == IF guarded
              THEN MemCpy(d1, pDetourAddress + nParamSize - 4, fptr)
              ELSE d1
        reg == IF guarded
               THEN (IF BitAnd(bytes[icall - 3], 241) = 65 THEN 8 ELSE 0)
                    + BitAnd(bytes[icall - 1], 7)
               ELSE (IF BitAnd(bytes[pCallAddress], 241) = 65 THEN 8 ELSE 0)
                    + BitAnd(bytes[pReturnAddress - 1], 7)
        ptr == <<76 + (IF BitAnd(reg, 8) # 0 THEN 1 ELSE 0), 139, 200 + BitAnd(reg, 7)>>
        d3 == MemCpy(d2, pDetourAddress + nParamSize, ptr)
        mov == <<72, 184>> \o HookAddressBytes
        d4 == MemCpy(d3, pDetourAddress + PtrSize + nParamSize, mov)
        jmp == <<233>> \o DWordBytes(pReturnAddress - CallSize
                                     - (pDetourAddress + nDetourSize))
    IN MemCpy(d4, pDetourAddress + PtrSize + nParamSize + MovSize, jmp)

\* The bytes that NtDllPatch writes to the patched range (239-247).
PatchBytes(bytes, pPatchAddress, pReturnAddress, pDetourAddress, nPatchSize) ==
    LET c0 == MemSet(bytes, pPatchAddress, 144, nPatchSize)
        jmp == <<233>> \o DWordBytes(pDetourAddress - (pReturnAddress - CallSize))
        c1 == MemCpy(c0, pReturnAddress - CallSize - JmpSize, jmp)
    IN MemCpy(c1, pReturnAddress - CallSize, <<255, 208>>)

\* NtDllPatch: redirects the loader's call through the detour; vpDetour and vpPatch
\* are whether VirtualProtect makes the detour and the patched range writable.
NtDllPatch(P, M, pReturnAddress, vpDetour, vpPatch) ==
    IF P.bState = FALSE
    THEN LET pPatchAddress == NtDllFindParamAddress(M, pReturnAddress)
             pCallAddress == NtDllFindCallAddress(M, pReturnAddress)
             nPatchSize == Wrap(pReturnAddress - pPatchAddress)
             nParamSize == Wrap(pCallAddress - pPatchAddress)
             nDetourSize == Wrap(PtrSize + nParamSize + MovSize + JmpSize)
             pDetourAddress == NtDllFindDetourAddress(M, pReturnAddress, nDetourSize)
             P1 == [P EXCEPT !.pPatchAddress = pPatchAddress, !.nPatchSize = nPatchSize,
                             !.nDetourSize = nDetourSize, !.pDetourAddress = pDetourAddress]
         IN IF pPatchAddress # NULL /\ pDetourAddress # NULL
               /\ JmpSize + CallSize <= nPatchSize
            THEN LET P2 == [P1 EXCEPT !.pBackup =
                               MemCpy(@, 1, BytesAt(M.bytes, pPatchAddress, nPatchSize))]
                 IN IF vpDetour
                    THEN LET M1 == [M EXCEPT !.bytes =
                                       DetourBytes(@, pPatchAddress, pCallAddress,
                                                   pReturnAddress, pDetourAddress,
                                                   nParamSize, nDetourSize)]
                         IN IF vpPatch
                            THEN [P |-> [P2 EXCEPT !.bState = TRUE],
                                  M |-> [M1 EXCEPT !.bytes =
                                            PatchBytes(@, pPatchAddress, pReturnAddress,
                                                       pDetourAddress, nPatchSize)],
                                  result |-> TRUE, wrote |-> TRUE]
                            ELSE [P |-> P2, M |-> M1, result |-> P2.bState, wrote |-> TRUE]
                    ELSE [P |-> P2, M |-> M, result |-> P2.bState, wrote |-> FALSE]
            ELSE [P |-> P1, M |-> M, result |-> P1.bState, wrote |-> FALSE]
    ELSE [P |-> P, M |-> M, result |-> P.bState, wrote |-> FALSE]

\* The writes of NtDllRestore: the backup over the patched range, zeroes over the detour.
RestorePatch(P, M) ==
    [M EXCEPT !.bytes = MemCpy(@, P.pPatchAddress, BytesAt(P.pBackup, 1, P.nPatchSize))]
\* A restore whose memset fills the detour with the no-operation byte of the patch.
RestoreDetour_Nop(P, M) ==
    [M EXCEPT !.bytes = MemSet(@, P.pDetourAddress, 144, P.nDetourSize)]
RestoreDetour(P, M) ==
    [M EXCEPT !.bytes = MemSet(@, P.pDetourAddress, 0, P.nDetourSize)]

\* NtDllRestore without the bState test of line 265; of a patch that was never
\* written it copies no more than the backup holds.
NtDllRestore_NoStateTest(P, M, vpPatch, vpDetour) ==
    IF P.nPatchSize # 0
    THEN IF vpPatch
         THEN LET n  == IF P.nPatchSize > BackupSize THEN BackupSize ELSE P.nPatchSize
                  M1 == RestorePatch([P EXCEPT !.nPatchSize = n], M)
              IN IF vpDetour
                 THEN [P |-> P, M |-> RestoreDetour(P, M1), result |-> TRUE, wrote |-> TRUE]
                 ELSE [P |-> P, M |-> M1, result |-> FALSE, wrote |-> TRUE]
         ELSE [P |-> P, M |-> M, result |-> FALSE, wrote |-> FALSE]
    ELSE [P |-> P, M |-> M, result |-> FALSE, wrote |-> FALSE]

\* NtDllRestore: copies the backup over the patched range and zeroes the detour.
NtDllRestore(P, M, vpPatch, vpDetour) ==
    IF P.bState /\ P.nPatchSize # 0
    THEN IF vpPatch
         THEN LET M1 == RestorePatch(P, M)
              IN IF vpDetour
                 THEN [P |-> P, M |-> RestoreDetour(P, M1), result |-> TRUE, wrote |-> TRUE]
                 ELSE [P |-> P, M |-> M1, result |-> FALSE, wrote |-> TRUE]
         ELSE [P |-> P, M |-> M, result |-> FALSE, wrote |-> FALSE]
    ELSE [P |-> P, M |-> M, result |-> FALSE, wrote |-> FALSE]

(***************************************************************************)
(* The module registry. A module is known by its base address. dbghelp.dll *)
(* and the application are loaded when the detector is constructed; the    *)
(* others are loaded and unloaded while the process runs.                  *)
(***************************************************************************)
DbgHelp == 1
Mfc == 2        \* listed in the patch table, its leaks are reported
Crt == 3        \* listed in the patch table, its leaks are not reported
Plugin == 4     \* does not import the detector and is on the list of excluded modules
App == 5        \* imports the detector
Modules == {DbgHelp, Mfc, Crt, Plugin, App}

\* The patch table before any of its modules is loaded.
PatchTable ==
    <<[exportModuleName |-> Mfc, moduleBase |-> 0, reportLeaks |-> TRUE],
      [exportModuleName |-> Crt, moduleBase |-> 0, reportLeaks |-> FALSE]>>

\* The modules that attachToLoadedModules excludes: they do not import the detector,
\* no entry of the patch table reports their leaks, and the module list names them.
ForcedExcluded(table) ==
    {m \in {Plugin} :
        ~\E i \in DOMAIN table : table[i].exportModuleName = m /\ table[i].reportLeaks}

\* EnumerateLoadedModulesW64 with addLoadedModule: the set of the loaded modules,
\* their flags clear, and the patch table with the base addresses of its modules.
addLoadedModules(table, loaded) ==
    [newmodules |-> [m \in loaded |-> {}],
     table |-> [i \in DOMAIN table |->
                  IF table[i].exportModuleName \in loaded
                  THEN [table[i] EXCEPT !.moduleBase = table[i].exportModuleName]
                  ELSE table[i]]]

\* getModuleState for the module of the new set: 1 for a module the set in use does
\* not hold, 2 for one that is attached, 3 for one that was attached once.
getModuleState(oldmodules, isPatched, m) ==
    IF m \notin DOMAIN oldmodules THEN [state |-> 1, moduleFlags |-> {}]
    ELSE IF m \in isPatched THEN [state |-> 2, moduleFlags |-> oldmodules[m]]
    ELSE [state |-> 3, moduleFlags |-> oldmodules[m]]

\* attachToLoadedModules: the flags of the new set's modules, and the modules that
\* are attached afterwards.
attachToLoadedModules(oldmodules, newmodules, table, isPatched) ==
    [newmodules |->
        [m \in DOMAIN newmodules |->
            LET r == getModuleState(oldmodules, isPatched, m)
            IN IF r.state = 2 THEN r.moduleFlags
               ELSE r.moduleFlags \cup {"VLD_MODULE_SYMBOLSLOADED"}
                    \cup (IF m \in ForcedExcluded(table) THEN {"VLD_MODULE_EXCLUDED"}
                          ELSE {})],
     attached |-> isPatched \cup DOMAIN newmodules]

\* ChangeModuleState on the set in use.
ChangeModuleState(modules, module, on) ==
    IF module \notin DOMAIN modules THEN modules
    ELSE IF on THEN [modules EXCEPT ![module] = @ \ {"VLD_MODULE_EXCLUDED"}]
    ELSE [modules EXCEPT ![module] = @ \cup {"VLD_MODULE_EXCLUDED"}]

\* isModuleExcluded: a module that the set does not hold is not excluded.
isModuleExcluded(modules, address) ==
    IF address \in DOMAIN modules THEN "VLD_MODULE_EXCLUDED" \in modules[address]
    ELSE FALSE

\* The modules loaded when the detector is constructed, and what the constructor
\* leaves: the first set, attached to, with dbghelp.dll excluded.
AtStart == {DbgHelp, App}
Constructed ==
    LET e == addLoadedModules(PatchTable, AtStart)
        a == attachToLoadedModules(EmptyMap, e.newmodules, e.table, {})
    IN [modules |-> ChangeModuleState(a.newmodules, DbgHelp, FALSE),
        table |-> e.table, attached |-> a.attached]

RECURSIVE PatchTableSays(_, _, _)
\* The loop of IsExcludedModule over the patch table, from index i: the answer of the
\* first entry of the module, or "none".
PatchTableSays(table, hModule, i) ==
    IF i > Len(table) THEN "none"
    ELSE IF table[i].moduleBase = hModule
    THEN (IF table[i].reportLeaks THEN "included" ELSE "excluded")
    ELSE PatchTableSays(table, hModule, i + 1)

\* CaptureContext::IsExcludedModule, for the module hModule that GetCallingModule
\* finds for the frame of the context.
IsExcludedModule(hModule, dbghlpBase, table, modules) ==
    IF hModule = dbghlpBase THEN TRUE
    ELSE IF PatchTableSays(table, hModule, 1) # "none"
    THEN PatchTableSays(table, hModule, 1) = "excluded"
    ELSE isModuleExcluded(modules, hModule)

(***************************************************************************)
(* The capture protocol.                                                   *)
(***************************************************************************)
\* CallStack::getStackTrace: the frames the walk from the recorded context finds.
getStackTrace(context) == context.fp

\* CaptureContext::CaptureContext that marks the flags only when it is the first to
\* enter (lines 2906-2912 moved into the test of line 2915).
CaptureContext_FirstOnly(T, t, func, context, debug, ucrt) ==
    LET m_context == [context EXCEPT !.func = func]
        U == getTls(T, t)
        flags == U[t].flags \cup (IF debug THEN {"VLD_TLS_DEBUGCRTALLOC"} ELSE {})
                            \cup (IF ucrt THEN {"VLD_TLS_UCRT"} ELSE {})
        m_bFirst == U[t].context.fp = NULL
    IN [T |-> [U EXCEPT ![t].flags = IF m_bFirst THEN flags ELSE @,
                        ![t].context = IF m_bFirst THEN m_context ELSE @],
        cc |-> [m_bFirst |-> m_bFirst, m_context |-> m_context]]

\* CaptureContext::CaptureContext on thread t, with the caller's context (whose return
\* address is GET_RETURN_ADDRESS(context), here fp). Gives the thread states and the
\* object constructed.
CaptureContext(T, t, func, context, debug, ucrt) ==
    LET m_context == [context EXCEPT !.func = func]
        U == getTls(T, t)
        flags == U[t].flags \cup (IF debug THEN {"VLD_TLS_DEBUGCRTALLOC"} ELSE {})
                            \cup (IF ucrt THEN {"VLD_TLS_UCRT"} ELSE {})
        m_bFirst == U[t].context.fp = NULL
    IN [T |-> [U EXCEPT ![t].flags = flags,
                        ![t].context = IF m_bFirst THEN m_context ELSE @],
        cc |-> [m_bFirst |-> m_bFirst, m_context |-> m_context]]

\* CaptureContext::Set, of the object cc of thread t.
Set(T, t, cc, heap, mem, newmem, size, options) ==
    [T EXCEPT ![t].heap = heap,
              ![t].blockWithoutGuard = mem,
              ![t].newBlockWithoutGuard = newmem,
              ![t].size = size,
              ![t].context = IF mem # NULL /\ "VLD_OPT_TRACE_INTERNAL_FRAMES" \in options
                             THEN cc.m_context ELSE @]

\* Reset that leaves the recorded context as it is (without lines 2972-2978).
Reset_KeepContext(T, t, cc, options) ==
    Set([T EXCEPT ![t].flags = @ \ {"VLD_TLS_DEBUGCRTALLOC", "VLD_TLS_UCRT"}],
        t, cc, NULL, NULL, NULL, 0, options)

\* CaptureContext::Reset.
Reset(T, t, cc, options) ==
    Set([T EXCEPT ![t].context = NullContext,
                  ![t].flags = @ \ {"VLD_TLS_DEBUGCRTALLOC", "VLD_TLS_UCRT"}],
        t, cc, NULL, NULL, NULL, 0, options)

\* The destructor of an outermost object without the IsExcludedModule test of line 2927.
CommitAndReset_NoExcludedTest(T, L, t, cc, excluded, options) ==
    LET tls == T[t]
    IN IF tls.blockWithoutGuard # NULL
       THEN [T |-> Reset(T, t, cc, options),
             L |-> commit(L, tls.heap, tls.blockWithoutGuard, tls.newBlockWithoutGuard,
                          tls.size, "VLD_TLS_DEBUGCRTALLOC" \in tls.flags,
                          "VLD_TLS_UCRT" \in tls.flags, tls.threadId,
                          getStackTrace(tls.context)),
             committed |-> TRUE]
       ELSE [T |-> Reset(T, t, cc, options), L |-> L, committed |-> FALSE]

\* What the destructor of an outermost object does.
CommitAndReset(T, L, t, cc, excluded, options) ==
    LET tls == T[t]
    IN IF tls.blockWithoutGuard # NULL /\ ~excluded
       THEN [T |-> Reset(T, t, cc, options),
             L |-> commit(L, tls.heap, tls.blockWithoutGuard, tls.newBlockWithoutGuard,
                          tls.size, "VLD_TLS_DEBUGCRTALLOC" \in tls.flags,
                          "VLD_TLS_UCRT" \in tls.flags, tls.threadId,
                          getStackTrace(tls.context)),
             committed |-> TRUE]
       ELSE [T |-> Reset(T, t, cc, options), L |-> L, committed |-> FALSE]

\* ~CaptureContext without the "if (!m_bFirst) return" of lines 2924-2925.
CaptureContextExit_NoFirstTest(T, L, t, cc, excluded, options) ==
    CommitAndReset(T, L, t, cc, excluded, options)

\* CaptureContext::~CaptureContext of the object cc of thread t; excluded is what
\* IsExcludedModule returns.
CaptureContextExit(T, L, t, cc, excluded, options) ==
    IF ~cc.m_bFirst THEN [T |-> T, L |-> L, committed |-> FALSE]
    ELSE CommitAndReset(T, L, t, cc, excluded, options)

Tracked(heap, mem) == heap \in DOMAIN m_heapMap /\ mem \in DOMAIN m_heapMap[heap].blockMap

\* The thread id of the entry at (heap, mem); 0 when there is none.
OwnerOf(heap, mem) ==
    IF Tracked(heap, mem) THEN blockinfos[m_heapMap[heap].blockMap[mem]].threadId ELSE 0

NoOp == [op |-> "none", heap |-> NULL, mem |-> NULL, newmem |-> NULL, size |-> 0,
         threadId |-> 0, callStack |-> NULL, owner |-> 0, first |-> FALSE,
         enabled |-> FALSE, excluded |-> FALSE, aggregated |-> {}, fp |-> NULL,
         committed |-> FALSE, result |-> FALSE, wrote |-> FALSE, module |-> 0,
         entered |-> {}, nested |-> {}, line |-> 0, debug |-> FALSE, ucrt |-> FALSE,
         saved |-> <<>>, restores |-> 0, changed |-> 0, on |-> FALSE]

\* The critical sections of the detector, each entered through a CriticalSectionLocker.
Locks == {"g_heapMapLock", "m_modulesLock", "m_tlsLock", "m_optionsLock", "g_DbgHelp"}
Unowned == [owner |-> 0, count |-> 0]

\* No operation in progress on the thread. steps are the steps the operation has
\* left; it is the iterator that find returned (0: none); newmodules is the set
\* that RefreshModules builds and oldmodules the pointer it swapped out. entered,
\* nested and accessed are history: the critical sections the call has entered, those
\* it has entered while it owned them, and whether the set of modules that it has
\* read or written was allocated ("live") or deleted ("freed").
NoOperation ==
    [op |-> "none", pc |-> "idle", steps |-> <<>>, heap |-> NULL, mem |-> NULL,
     newmem |-> NULL, size |-> 0, option_mask |-> {}, module |-> 0, on |-> FALSE,
     it |-> 0, newmodules |-> EmptyMap, oldmodules |-> 0, result |-> 0,
     entered |-> {}, nested |-> {}, accessed |-> "none"]

\* No call of LdrpCallInitRoutine: the thread is not in the loader's hook.
\* refreshed is history: the call has replaced the set of loaded modules.
NoHook == [pc |-> "idle", BaseAddress |-> 0, Reason |-> "none", refreshed |-> FALSE,
           invoked |-> 0, returned |-> FALSE]

\* No call of waitForAllVLDThreads. tlsit is the thread whose entry the iterator has
\* passed, m_tlsLock the thread that holds the lock of the thread-state map; polls and
\* visited are history: the calls of WaitForSingleObject made, and the last thread
\* visited with what the system answered for it.
NoWait == [pc |-> "idle", current |-> 0, tlsit |-> 0, waitcount |-> 0,
           threadsactive |-> FALSE, m_tlsLock |-> 0, polls |-> 0,
           visited |-> 0, answer |-> "none", result |-> FALSE]

\* The process is running: DllEntryPoint has not been called for process detach.
NoExit == [pc |-> "running", log |-> <<>>]

\* No CRT debug block header: the memory does not hold a valid header of a block of
\* the tracked size. Otherwise the header's layout (ucrt or not) and its block use.
NoCall ==
    [op |-> "none", heap |-> 0, mem |-> 0, newmem |-> 0, size |-> 0, pc |-> "idle",
     seen |-> NoLedger, result |-> 0, expect |-> 0]

NoHdr == [valid |-> FALSE, ucrt |-> FALSE, use |-> "CRT_USE_NORMAL"]
Hdrs == {NoHdr} \cup [valid : {TRUE}, ucrt : BOOLEAN, use : {"CRT_USE_NORMAL", "CRT_USE_INTERNAL"}]

\* The operation wrote no leak entry and returned no count.
NoOutput == leakEntries' = <<>> /\ retval' = 0

\* The reference map after each operation.
RefUnmap(r, h, a) == [k \in (DOMAIN r) \ {<<h, a>>} |-> r[k]]
RefMap(r, h, a, s) == [k \in (DOMAIN r) \cup {<<h, a>>} |-> IF k = <<h, a>> THEN s ELSE r[k]]
RefUnmapHeap(r, h) == [k \in {x \in DOMAIN r : x[1] # h} |-> r[k]]

(***************************************************************************)
(* The ledger's operations as steps: what the allocation hooks do to the   *)
(* ledger, one call at a time.                                             *)
(***************************************************************************)
InitState ==
    /\ m_heapMap = EmptyMap
    /\ blockinfos = EmptyMap
    /\ m_requestCurr = 1
    /\ m_totalAlloc = 0
    /\ m_curAlloc = 0
    /\ m_maxAlloc = 0
    /\ reportLog = <<>>
    /\ memHdr = [a \in Addrs |-> NoHdr]
    /\ leakEntries = <<>>
    /\ retval = 0
    /\ m_tlsMap = EmptyMap
    /\ ccStack = [t \in Threads |-> <<>>]
    /\ suspended = [t \in Threads |-> "no"]
    /\ markSerial = 0
    /\ ref = EmptyMap
    /\ patch = NoPatch
    /\ ntdll = NoLayout
    /\ patched = FALSE
    /\ image = NoLayout.bytes
    /\ g_heapMapLock = 0
    /\ inCall = [t \in Threads |-> NoCall]
    /\ serial = NoLedger
    /\ process = AtStart
    /\ moduleSets = (1 :> Constructed.modules)
    /\ m_loadedModules = 1
    /\ m_patchTable = Constructed.table
    /\ m_dbghlpBase = DbgHelp
    /\ attached = Constructed.attached
    /\ loaderLock = 0
    /\ hookCall = [t \in Threads |-> NoHook]
    /\ waiter = NoWait
    /\ exit = NoExit
    /\ locks = [l \in Locks |-> Unowned]
    /\ calls = [t \in Threads |-> NoOperation]
    /\ lastOp = NoOp

\* The installed detector.
Init ==
    /\ m_options = {}
    /\ m_status = {"VLD_STATUS_INSTALLED"}
    /\ InitState

\* The detector that its configuration starts disabled (443-446).
InitDisabled ==
    /\ m_options = {"VLD_OPT_START_DISABLED"}
    /\ m_status = {"VLD_STATUS_INSTALLED", "VLD_STATUS_NEVER_ENABLED"}
    /\ InitState

\* The detector that its configuration turns off: the constructor returns at line 380,
\* and the DLL's entry point has patched the loader all the same.
InitOff ==
    /\ m_options = {"VLD_OPT_VLDOFF"}
    /\ m_status = {}
    /\ InitState

\* An allocation of thread t, committed with the stack cs. hdr is what the allocator
\* left in the block's memory: the header of the debug CRT when the allocation came
\* through it.
MapBlock(t, h, a, s, cs, debugcrtalloc, ucrt, hdr) ==
    /\ m_requestCurr < MaxSerial
    /\ debugcrtalloc => hdr.valid /\ hdr.ucrt = ucrt
    /\ ucrt => debugcrtalloc
    /\ SetLedger(commit(Ledger, h, a, NULL, s, debugcrtalloc, ucrt, t, cs))
    /\ memHdr' = [memHdr EXCEPT ![a] = hdr]
    /\ ref' = RefMap(ref, h, a, s)
    /\ lastOp' = [NoOp EXCEPT !.op = "mapBlock", !.heap = h, !.mem = a, !.size = s,
                              !.threadId = t, !.callStack = cs, !.owner = OwnerOf(h, a)]
    /\ NoOutput
    /\ UNCHANGED <<m_options, threadVars, markSerial, loaderVars, lockVars, moduleVars, processVars>>

RemapBlock(t, h, a, b, s, cs) ==
    /\ m_requestCurr < MaxSerial
    /\ SetLedger(commit(Ledger, h, a, b, s, FALSE, FALSE, t, cs))
    /\ memHdr' = [memHdr EXCEPT ![b] = NoHdr]
    /\ ref' = RefMap(RefUnmap(ref, h, a), h, b, s)
    /\ lastOp' = [NoOp EXCEPT !.op = "remapBlock", !.heap = h, !.mem = a, !.newmem = b,
                              !.size = s, !.threadId = t, !.callStack = cs,
                              !.owner = OwnerOf(h, a)]
    /\ NoOutput
    /\ UNCHANGED <<m_options, threadVars, markSerial, loaderVars, lockVars, moduleVars, processVars>>

UnmapBlock(h, a) ==
    /\ UNCHANGED memHdr
    /\ SetLedger(unmapBlock(Ledger, h, a))
    /\ ref' = RefUnmap(ref, h, a)
    /\ lastOp' = [NoOp EXCEPT !.op = "unmapBlock", !.heap = h, !.mem = a,
                              !.owner = OwnerOf(h, a)]
    /\ NoOutput
    /\ UNCHANGED <<m_options, threadVars, markSerial, loaderVars, lockVars, moduleVars, processVars>>

MapHeap(h) ==
    /\ UNCHANGED memHdr
    /\ SetLedger(mapHeap(Ledger, h))
    /\ ref' = RefUnmapHeap(ref, h)
    /\ lastOp' = [NoOp EXCEPT !.op = "mapHeap", !.heap = h,
                              !.owner = IF h \in DOMAIN m_heapMap THEN 1 ELSE 0]
    /\ NoOutput
    /\ UNCHANGED <<m_options, threadVars, markSerial, loaderVars, lockVars, moduleVars, processVars>>

UnmapHeap(h) ==
    /\ UNCHANGED memHdr
    /\ SetLedger(unmapHeap(Ledger, h))
    /\ ref' = RefUnmapHeap(ref, h)
    /\ lastOp' = [NoOp EXCEPT !.op = "unmapHeap", !.heap = h,
                              !.owner = IF h \in DOMAIN m_heapMap THEN 1 ELSE 0]
    /\ NoOutput
    /\ UNCHANGED <<m_options, threadVars, markSerial, loaderVars, lockVars, moduleVars, processVars>>

\* The operations on one heap. Each thread allocates from one call site of its own:
\* the stack captured for thread t is stack t.
OneHeap == {1}

Next ==
    \/ \E t \in Threads, h \in OneHeap, a \in Addrs, s \in Sizes : MapBlock(t, h, a, s, t, FALSE, FALSE, NoHdr)
    \/ \E t \in Threads, h \in OneHeap, a \in Addrs, b \in Addrs, s \in Sizes :
          RemapBlock(t, h, a, b, s, t)
    \/ \E h \in OneHeap, a \in Addrs \cup {NULL} : UnmapBlock(h, a)
    \/ \E h \in OneHeap : MapHeap(h)
    \/ \E h \in OneHeap : UnmapHeap(h)

Spec == Init /\ [][Next]_vars

\* Sequences of mapBlock and unmapBlock alone, on every heap, by one thread.
NextMapUnmap ==
    \/ \E h \in Heaps, a \in Addrs, s \in Sizes : MapBlock(1, h, a, s, 1, FALSE, FALSE, NoHdr)
    \/ \E h \in Heaps, a \in Addrs \cup {NULL} : UnmapBlock(h, a)

SpecMapUnmap == Init /\ [][NextMapUnmap]_vars

\* Reallocations, allocations and frees by one thread on one heap, and the heap's
\* destruction.
NextRemap ==
    \/ \E h \in OneHeap, a \in Addrs, s \in Sizes : MapBlock(1, h, a, s, 1, FALSE, FALSE, NoHdr)
    \/ \E h \in OneHeap, a \in Addrs, b \in Addrs, s \in Sizes : RemapBlock(1, h, a, b, s, 1)
    \/ \E h \in OneHeap, a \in Addrs : UnmapBlock(h, a)
    \/ \E h \in OneHeap : UnmapHeap(h)

SpecRemap == Init /\ [][NextRemap]_vars

\* Allocations of one thread on every heap, and the creation and the destruction of
\* the heaps, notified or not.
NextHeaps ==
    \/ \E h \in Heaps, a \in Addrs, s \in Sizes : MapBlock(1, h, a, s, 1, FALSE, FALSE, NoHdr)
    \/ \E h \in Heaps : MapHeap(h)
    \/ \E h \in Heaps : UnmapHeap(h)

SpecHeaps == Init /\ [][NextHeaps]_vars

\* The operations on one heap with blocks whose sizes add up to more than SIZE_MAX.
BigSizes == {100, 200}

NextCounters ==
    \/ \E a \in Addrs, s \in BigSizes : MapBlock(1, 1, a, s, 1, FALSE, FALSE, NoHdr)
    \/ \E a \in Addrs, b \in Addrs, s \in BigSizes : RemapBlock(1, 1, a, b, s, 1)
    \/ \E a \in Addrs : UnmapBlock(1, a)

SpecCounters == Init /\ [][NextCounters]_vars

(***************************************************************************)
(* The queries and the report, as steps.                                   *)
(***************************************************************************)
CallGetLeaksCount ==
    LET r == GetLeaksCount(Ledger, AnyThread)
    IN /\ SetLedger(r.L)
       /\ retval' = r.result
       /\ leakEntries' = <<>>
       /\ lastOp' = [NoOp EXCEPT !.op = "GetLeaksCount"]
       /\ UNCHANGED <<m_options, memHdr, threadVars, markSerial, ref, loaderVars, lockVars, moduleVars, processVars>>

CallReportLeaks ==
    LET R == ReportLeaks(Ledger, AnyThread)
    IN /\ SetLedger(R.L)
       /\ retval' = R.leaksFound
       /\ leakEntries' = R.out
       /\ lastOp' = [NoOp EXCEPT !.op = "ReportLeaks", !.aggregated = R.aggregatedLeaks]
       /\ UNCHANGED <<m_options, memHdr, threadVars, markSerial, ref, loaderVars, lockVars, moduleVars, processVars>>

CallMarkAllLeaksAsReported ==
    /\ SetLedger(MarkAllLeaksAsReported(Ledger, AnyThread))
    /\ NoOutput
    /\ markSerial' = m_requestCurr
    /\ lastOp' = [NoOp EXCEPT !.op = "MarkAllLeaksAsReported"]
    /\ UNCHANGED <<m_options, memHdr, threadVars, ref, loaderVars, lockVars, moduleVars, processVars>>

\* SetOptions, called from thread t between two of its allocations.
CallSetOptions(t, option_mask) ==
    LET r == SetOptions(m_tlsMap, m_options, option_mask)
    IN /\ ccStack[t] = <<>>
       /\ m_options' = r.options
       /\ m_tlsMap' = r.T
       /\ suspended' = [u \in Threads |-> IF u = t THEN "no" ELSE suspended[u]]
       /\ reportLog' = <<>>
       /\ NoOutput
       /\ lastOp' = [NoOp EXCEPT !.op = "SetOptions", !.threadId = t]
       /\ UNCHANGED <<ledgerVars, memHdr, m_status, ccStack, markSerial, ref, loaderVars, lockVars, moduleVars, processVars>>

\* The options the report depends on.
ReportOptions == {"VLD_OPT_AGGREGATE_DUPLICATES", "VLD_OPT_SKIP_CRTSTARTUP_LEAKS"}

\* The allocations of the report's runs: of the application, from two call sites; of
\* the CRT's startup code (stack 2), from the application's heap and, for its internal
\* use, through a hooked debug CRT; and of a statically linked debug CRT, which the
\* detector recognises by the header it finds in the block.
CrtNormalHdr == [valid |-> TRUE, ucrt |-> FALSE, use |-> "CRT_USE_NORMAL"]
CrtInternalHdr == [valid |-> TRUE, ucrt |-> TRUE, use |-> "CRT_USE_INTERNAL"]
ReportAllocs ==
    {[size |-> 1, callStack |-> 1, debugcrtalloc |-> FALSE, hdr |-> NoHdr],
     [size |-> 2, callStack |-> 1, debugcrtalloc |-> FALSE, hdr |-> NoHdr],
     [size |-> 1, callStack |-> 2, debugcrtalloc |-> FALSE, hdr |-> NoHdr],
     [size |-> 1, callStack |-> 2, debugcrtalloc |-> TRUE, hdr |-> CrtInternalHdr],
     [size |-> 2, callStack |-> 1, debugcrtalloc |-> FALSE, hdr |-> CrtNormalHdr]}

\* The heap of the report's runs hands out its lowest free address.
LowestFree(h, a) ==
    /\ a \in 1..MaxBlocks
    /\ ~Tracked(h, a)
    /\ \A x \in 1..(a - 1) : Tracked(h, x)

\* Allocations and frees of one thread on one heap, the queries, the report and the
\* options of the report.
NextReport ==
    \/ \E h \in OneHeap, a \in Addrs, k \in ReportAllocs :
          /\ m_requestCurr <= MaxBlocks
          /\ LowestFree(h, a)
          /\ MapBlock(1, h, a, k.size, k.callStack, k.debugcrtalloc, k.hdr.ucrt, k.hdr)
    \/ \E h \in OneHeap, a \in Addrs : UnmapBlock(h, a)
    \/ CallGetLeaksCount
    \/ CallReportLeaks
    \/ CallMarkAllLeaksAsReported
    \/ \E o \in SUBSET ReportOptions : CallSetOptions(1, o)

SpecReport == Init /\ [][NextReport]_vars

\* The queries and the report of one thread's blocks.
CallGetThreadLeaksCount(threadId) ==
    LET r == GetLeaksCount(Ledger, threadId)
    IN /\ SetLedger(r.L)
       /\ retval' = r.result
       /\ leakEntries' = <<>>
       /\ lastOp' = [NoOp EXCEPT !.op = "GetThreadLeaksCount", !.threadId = threadId]
       /\ UNCHANGED <<m_options, memHdr, threadVars, markSerial, ref, loaderVars, lockVars, moduleVars, processVars>>

CallReportThreadLeaks(threadId) ==
    LET R == ReportLeaks(Ledger, threadId)
    IN /\ SetLedger(R.L)
       /\ retval' = R.leaksFound
       /\ leakEntries' = R.out
       /\ lastOp' = [NoOp EXCEPT !.op = "ReportThreadLeaks", !.threadId = threadId,
                                 !.aggregated = R.aggregatedLeaks]
       /\ UNCHANGED <<m_options, memHdr, threadVars, markSerial, ref, loaderVars, lockVars, moduleVars, processVars>>

CallMarkThreadLeaksAsReported(threadId) ==
    /\ SetLedger(MarkAllLeaksAsReported(Ledger, threadId))
    /\ NoOutput
    /\ lastOp' = [NoOp EXCEPT !.op = "MarkThreadLeaksAsReported", !.threadId = threadId]
    /\ UNCHANGED <<m_options, memHdr, threadVars, markSerial, ref, loaderVars, lockVars, moduleVars, processVars>>

\* Two threads allocate from one call site, and either asks for the leaks of either.
NextThreadReport ==
    \/ \E t \in Threads, h \in OneHeap, a \in Addrs :
          /\ m_requestCurr <= MaxBlocks
          /\ LowestFree(h, a)
          /\ MapBlock(t, h, a, 1, 1, FALSE, FALSE, NoHdr)
    \/ \E h \in OneHeap, a \in Addrs : UnmapBlock(h, a)
    \/ \E t \in Threads : CallGetThreadLeaksCount(t)
    \/ \E t \in Threads : CallReportThreadLeaks(t)
    \/ \E t \in Threads : CallMarkThreadLeaksAsReported(t)
    \/ \E o \in SUBSET {"VLD_OPT_AGGREGATE_DUPLICATES"} : CallSetOptions(1, o)

SpecThreadReport == Init /\ [][NextThreadReport]_vars

(***************************************************************************)
(* The patching of the loader.                                             *)
(***************************************************************************)
\* The frame of the loader hook's operations.
LoaderFrame ==
    UNCHANGED <<ledgerVars, m_options, reportLog, memHdr, outVars, threadVars,
                markSerial, ref, lockVars, moduleVars, processVars>>

\* The process maps the loader's code, of whichever layout its version has.
MapNtDll(param, call, spare, guard) ==
    /\ ~ntdll.mapped
    /\ (param # 0 /\ call # 0) => param >= call + 3
    /\ guard => (call = 3 /\ param = 16)
    /\ ntdll' = [mapped |-> TRUE, bytes |-> LoaderCode(param, call, spare, guard)]
    /\ image' = LoaderCode(param, call, spare, guard)
    /\ lastOp' = [NoOp EXCEPT !.op = "MapNtDll"]
    /\ UNCHANGED <<patch, patched>>
    /\ LoaderFrame

CallNtDllPatch(vpDetour, vpPatch) ==
    LET r == NtDllPatch(patch, ntdll, ReturnAddress, vpDetour, vpPatch)
    IN /\ ntdll.mapped
       /\ patch' = r.P
       /\ ntdll' = r.M
       /\ patched' = (patched \/ r.result)
       /\ image' = IF r.result /\ ~patch.bState THEN ntdll.bytes ELSE image
       /\ lastOp' = [NoOp EXCEPT !.op = "NtDllPatch", !.result = r.result,
                                 !.wrote = r.wrote]
       /\ LoaderFrame

CallNtDllRestore(vpPatch, vpDetour) ==
    LET r == NtDllRestore(patch, ntdll, vpPatch, vpDetour)
    IN /\ ntdll.mapped
       /\ patch' = r.P
       /\ ntdll' = r.M
       /\ lastOp' = [NoOp EXCEPT !.op = "NtDllRestore", !.result = r.result,
                                 !.wrote = r.wrote]
       /\ UNCHANGED <<patched, image>>
       /\ LoaderFrame

NextLoader ==
    \/ \E param \in ParamDistances, call \in CallDistances, spare \in SpareSizes,
          guard \in BOOLEAN :
          MapNtDll(param, call, spare, guard)
    \/ \E vpDetour \in BOOLEAN, vpPatch \in BOOLEAN : CallNtDllPatch(vpDetour, vpPatch)
    \/ \E vpPatch \in BOOLEAN, vpDetour \in BOOLEAN : CallNtDllRestore(vpPatch, vpDetour)

SpecLoader == Init /\ [][NextLoader]_vars

(***************************************************************************)
(* The hooked allocation functions and the control calls.                  *)
(***************************************************************************)
\* Nesting depth of hooked calls in progress, over all threads, and allocations of a
\* run of the control calls.
MaxDepth == 3
MaxAllocs == 2

\* The return addresses of the hooks' callers: a call at nesting depth d of its thread
\* is entered from frame d.
Frames == 1..MaxDepth

\* A control call of thread t: it is not made from inside a hooked allocation. The
\* thread's suspension ends unless keep.
ControlCall(t, name, T, options, status, sus) ==
    /\ ccStack[t] = <<>>
    /\ m_tlsMap' = T
    /\ m_options' = options
    /\ m_status' = status
    /\ suspended' = sus
    /\ reportLog' = <<>>
    /\ NoOutput
    /\ lastOp' = [NoOp EXCEPT !.op = name, !.threadId = t]
    /\ UNCHANGED <<ledgerVars, memHdr, ccStack, markSerial, ref, loaderVars, lockVars, moduleVars, processVars>>

Resume(t) == [u \in Threads |-> IF u = t THEN "no" ELSE suspended[u]]

\* DisableLeakDetection that also marks the blocks of the thread as reported.
CallDisableLeakDetection_Forget(t) ==
    /\ ccStack[t] = <<>>
    /\ m_tlsMap' = DisableLeakDetection(m_tlsMap, t, m_options)
    /\ SetLedger(MarkAllLeaksAsReported(Ledger, t))
    /\ suspended' = [u \in Threads |-> IF u = t THEN "yes" ELSE suspended[u]]
    /\ NoOutput
    /\ lastOp' = [NoOp EXCEPT !.op = "DisableLeakDetection", !.threadId = t]
    /\ UNCHANGED <<m_options, m_status, memHdr, ccStack, markSerial, ref, loaderVars, lockVars, moduleVars, processVars>>

CallDisableLeakDetection(t) ==
    ControlCall(t, "DisableLeakDetection", DisableLeakDetection(m_tlsMap, t, m_options),
                m_options, m_status,
                [u \in Threads |-> IF u = t THEN "yes" ELSE suspended[u]])

CallEnableLeakDetection(t) ==
    ControlCall(t, "EnableLeakDetection", EnableLeakDetection(m_tlsMap, t, m_options),
                m_options,
                IF "VLD_OPT_VLDOFF" \in m_options THEN m_status
                ELSE m_status \ {"VLD_STATUS_NEVER_ENABLED"},
                Resume(t))

CallRestoreLeakDetectionState(t) ==
    ControlCall(t, "RestoreLeakDetectionState",
                RestoreLeakDetectionState(m_tlsMap, t, m_options),
                m_options, m_status, Resume(t))

CallGlobalDisableLeakDetection(t) ==
    LET r == GlobalDisableLeakDetection(m_tlsMap, m_options)
    IN ControlCall(t, "GlobalDisableLeakDetection", r.T, r.options, m_status, Resume(t))

CallGlobalEnableLeakDetection(t) ==
    LET r == GlobalEnableLeakDetection(m_tlsMap, m_options)
    IN ControlCall(t, "GlobalEnableLeakDetection", r.T, r.options,
                   IF "VLD_OPT_VLDOFF" \in m_options THEN m_status
                   ELSE m_status \ {"VLD_STATUS_NEVER_ENABLED"},
                   [u \in Threads |-> IF u = t THEN "no"
                                      ELSE IF suspended[u] = "yes" THEN "overridden"
                                      ELSE suspended[u]])

\* The memory of a block the detector commits: a debug CRT's block has the CRT's header.
HdrOf(flags) ==
    IF "VLD_TLS_DEBUGCRTALLOC" \in flags
    THEN [valid |-> TRUE, ucrt |-> "VLD_TLS_UCRT" \in flags, use |-> "CRT_USE_NORMAL"]
    ELSE NoHdr

\* The ledger, the memory and the reference map after the destructor's result d for the
\* pending block of tls.
Committed(d, tls) ==
    LET b == IF tls.newBlockWithoutGuard = NULL THEN tls.blockWithoutGuard
             ELSE tls.newBlockWithoutGuard
    IN /\ SetLedger(d.L)
       /\ memHdr' = IF d.committed THEN [memHdr EXCEPT ![b] = HdrOf(tls.flags)] ELSE memHdr
       /\ ref' = IF ~d.committed THEN ref
                 ELSE RefMap(RefUnmap(ref, tls.heap, tls.blockWithoutGuard),
                             tls.heap, b, tls.size)

\* A hooked allocation function, entered on thread t from the return address fp: it
\* returns at once unless the thread is enabled, and else constructs its CaptureContext.
HookEnter(t, func, fp, debug, ucrt) ==
    LET e == enabled(m_tlsMap, t, m_status, m_options)
        c == CaptureContext(e.T, t, func, [fp |-> fp, func |-> NULL], debug, ucrt)
    IN /\ m_tlsMap' = IF e.result THEN c.T ELSE e.T
       /\ ccStack' = IF e.result THEN [ccStack EXCEPT ![t] = Append(@, c.cc)] ELSE ccStack
       /\ lastOp' = [NoOp EXCEPT !.op = "enter", !.threadId = t, !.fp = fp,
                                 !.first = e.result /\ c.cc.m_bFirst,
                                 !.enabled = e.result, !.debug = debug, !.ucrt = ucrt]
       /\ reportLog' = <<>>
       /\ NoOutput
       /\ UNCHANGED <<ledgerVars, memHdr, m_options, m_status, suspended, markSerial, ref, loaderVars, lockVars, moduleVars, processVars>>

\* The innermost hooked call of thread t has its block, and calls Set.
HookSet(t, heap, mem, newmem, size) ==
    LET cc == ccStack[t][Len(ccStack[t])]
    IN /\ ccStack[t] # <<>>
       /\ m_tlsMap' = Set(m_tlsMap, t, cc, heap, mem, newmem, size, m_options)
       /\ lastOp' = [NoOp EXCEPT !.op = "set", !.threadId = t, !.heap = heap, !.mem = mem,
                                 !.newmem = newmem, !.size = size, !.first = cc.m_bFirst,
                                 !.fp = cc.m_context.fp, !.enabled = TRUE]
       /\ reportLog' = <<>>
       /\ NoOutput
       /\ UNCHANGED <<ledgerVars, memHdr, m_options, m_status, ccStack, suspended,
                      markSerial, ref, loaderVars, lockVars, moduleVars, processVars>>

\* The innermost hooked call of thread t returns: its CaptureContext is destroyed.
HookExit(t, excluded) ==
    LET cc == ccStack[t][Len(ccStack[t])]
        tls == m_tlsMap[t]
        d == CaptureContextExit(m_tlsMap, Ledger, t, cc, excluded, m_options)
    IN /\ ccStack[t] # <<>>
       /\ Committed(d, tls)
       /\ m_tlsMap' = d.T
       /\ ccStack' = [ccStack EXCEPT ![t] = SubSeq(@, 1, Len(@) - 1)]
       /\ lastOp' = [NoOp EXCEPT !.op = "exit", !.threadId = t, !.heap = tls.heap,
                                 !.mem = tls.blockWithoutGuard,
                                 !.newmem = tls.newBlockWithoutGuard, !.size = tls.size,
                                 !.first = cc.m_bFirst, !.fp = tls.context.fp,
                                 !.excluded = excluded, !.enabled = TRUE,
                                 !.committed = d.committed]
       /\ NoOutput
       /\ UNCHANGED <<m_options, m_status, suspended, markSerial, loaderVars, lockVars, moduleVars, processVars>>

\* A hooked allocation that calls no other hooked function, from entry to return.
HookedAlloc(t, func, fp, heap, mem, size, excluded) ==
    LET e == enabled(m_tlsMap, t, m_status, m_options)
        c == CaptureContext(e.T, t, func, [fp |-> fp, func |-> NULL], FALSE, FALSE)
        s == Set(c.T, t, c.cc, heap, mem, NULL, size, m_options)
        d == CaptureContextExit(s, Ledger, t, c.cc, excluded, m_options)
    IN /\ ccStack[t] = <<>>
       /\ IF e.result
          THEN /\ Committed(d, s[t])
               /\ m_tlsMap' = d.T
          ELSE /\ reportLog' = <<>>
               /\ m_tlsMap' = e.T
               /\ UNCHANGED <<ledgerVars, memHdr, ref>>
       /\ lastOp' = [NoOp EXCEPT !.op = "alloc", !.threadId = t, !.heap = heap, !.mem = mem,
                                 !.size = size, !.fp = fp, !.first = e.result,
                                 !.excluded = excluded, !.enabled = e.result,
                                 !.committed = e.result /\ d.committed]
       /\ NoOutput
       /\ UNCHANGED <<m_options, m_status, ccStack, suspended, markSerial, loaderVars, lockVars, moduleVars, processVars>>

\* The heap of these runs hands out one of its n lowest addresses, not one in use.
FreeAddr(h, a, n) == a \in 1..n /\ ~Tracked(h, a)

\* Two threads allocating, each switching the detection for itself or for all.
NextEnable ==
    \/ \E t \in Threads, h \in OneHeap, a \in Addrs, excluded \in BOOLEAN :
          /\ m_requestCurr <= MaxAllocs
          /\ FreeAddr(h, a, MaxAllocs)
          /\ HookedAlloc(t, 1, t, h, a, 1, excluded)
    \/ \E t \in Threads : CallDisableLeakDetection(t)
    \/ \E t \in Threads : CallEnableLeakDetection(t)
    \/ \E t \in Threads : CallRestoreLeakDetectionState(t)
    \/ \E t \in Threads : CallGlobalDisableLeakDetection(t)
    \/ \E t \in Threads : CallGlobalEnableLeakDetection(t)

SpecEnable == Init /\ [][NextEnable]_vars

\* Two threads allocating and freeing, thread 1 switching the detection, and reports.
NextSwitch ==
    \/ \E t \in Threads, h \in OneHeap, a \in Addrs :
          /\ m_requestCurr <= MaxAllocs
          /\ FreeAddr(h, a, MaxAllocs)
          /\ HookedAlloc(t, 1, t, h, a, 1, FALSE)
    \/ CallDisableLeakDetection(1)
    \/ CallEnableLeakDetection(1)
    \/ CallRestoreLeakDetectionState(1)
    \/ CallGlobalDisableLeakDetection(1)
    \/ CallGlobalEnableLeakDetection(1)
    \/ \E h \in OneHeap, a \in Addrs : Tracked(h, a) /\ UnmapBlock(h, a)
    \/ CallReportLeaks

SpecSwitch == Init /\ [][NextSwitch]_vars

\* Hooked calls in progress, and those that are the outermost of their thread.
Depth == Len(ccStack[1]) + Len(ccStack[2])
Outermost == Cardinality({t \in Threads : ccStack[t] # <<>>})

\* Hooked functions calling hooked functions, on two threads, with and without
\* VLD_OPT_TRACE_INTERNAL_FRAMES; thread 2 allocates through the debug CRT, and thread
\* 1 may disable the detection for all threads.
NextCapture ==
    \/ \E t \in Threads, fp \in Frames :
          /\ Depth < MaxDepth
          /\ fp = Len(ccStack[t]) + 1
          /\ ccStack[t] = <<>> => m_requestCurr + Outermost <= MaxAllocs
          /\ HookEnter(t, fp, fp, t = 2, FALSE)
    \/ \E t \in Threads, a \in {1}, b \in {NULL, 2} : HookSet(t, 1, a, b, 1)
    \/ \E t \in Threads, excluded \in BOOLEAN : HookExit(t, excluded)
    \/ \E t \in Threads, o \in SUBSET {"VLD_OPT_TRACE_INTERNAL_FRAMES"} : CallSetOptions(t, o)
    \/ CallGlobalDisableLeakDetection(1)

SpecCapture == Init /\ [][NextCapture]_vars

\* Hooked functions of the release CRT, of the debug CRT and of the universal CRT
\* calling one another: the outermost call of thread 1 is of the release CRT (it
\* asks for no capture flag), that of thread 2 of the debug CRT, and the calls nested
\* in them are of any of the three.
NextNested ==
    \/ \E t \in Threads, fp \in Frames, debug \in BOOLEAN, ucrt \in BOOLEAN :
          /\ Depth < MaxDepth
          /\ fp = Len(ccStack[t]) + 1
          /\ ccStack[t] = <<>> => m_requestCurr + Outermost <= MaxAllocs
          /\ ccStack[t] = <<>> => debug = (t = 2) /\ ~ucrt
          /\ HookEnter(t, fp, fp, debug, ucrt)
    \/ \E t \in Threads, a \in {1}, b \in {NULL, 2} : HookSet(t, 1, a, b, 1)
    \/ \E t \in Threads, excluded \in BOOLEAN : HookExit(t, excluded)

SpecNested == Init /\ [][NextNested]_vars

(***************************************************************************)
(* The module registry's operations, one call at a time.                   *)
(***************************************************************************)
ModuleFrame ==
    UNCHANGED <<ledgerVars, m_options, reportLog, memHdr, outVars, threadVars,
                markSerial, ref, loaderVars, lockVars, processVars>>

\* The process loads or unloads a module.
LoadModule(m) ==
    /\ loaderLock = 0
    /\ m \notin process
    /\ process' = process \cup {m}
    /\ lastOp' = [NoOp EXCEPT !.op = "LoadModule", !.module = m]
    /\ UNCHANGED <<moduleSets, m_loadedModules, m_patchTable, m_dbghlpBase, attached>>
    /\ ModuleFrame

UnloadModule(m) ==
    /\ loaderLock = 0
    /\ m \in process \ AtStart
    /\ process' = process \ {m}
    /\ attached' = attached \ {m}
    /\ lastOp' = [NoOp EXCEPT !.op = "UnloadModule", !.module = m]
    /\ UNCHANGED <<moduleSets, m_loadedModules, m_patchTable, m_dbghlpBase>>
    /\ ModuleFrame

\* RefreshModules: a new set replaces the set in use, which is deleted. With
\* VLD_OPT_VLDOFF it returns at line 2316.
RefreshModules ==
    IF "VLD_OPT_VLDOFF" \in m_options
    THEN UNCHANGED <<moduleSets, m_loadedModules, m_patchTable, attached>>
    ELSE LET e == addLoadedModules(m_patchTable, process)
             a == attachToLoadedModules(moduleSets[m_loadedModules], e.newmodules,
                                        e.table, attached)
             new == CHOOSE q \in 1..2 : q # m_loadedModules
         IN /\ moduleSets' = (new :> a.newmodules)
            /\ m_loadedModules' = new
            /\ m_patchTable' = e.table
            /\ attached' = a.attached

CallRefreshModules ==
    /\ "VLD_OPT_VLDOFF" \notin m_options
    /\ loaderLock = 0
    /\ RefreshModules
    /\ lastOp' = [NoOp EXCEPT !.op = "RefreshModules"]
    /\ UNCHANGED <<process, m_dbghlpBase>>
    /\ ModuleFrame

\* EnableModule (on) and DisableModule.
CallChangeModuleState(module, on) ==
    /\ "VLD_OPT_VLDOFF" \notin m_options
    /\ moduleSets' = [moduleSets EXCEPT ![m_loadedModules] =
                         ChangeModuleState(@, module, on)]
    /\ lastOp' = [NoOp EXCEPT !.op = IF on THEN "EnableModule" ELSE "DisableModule",
                              !.module = module]
    /\ UNCHANGED <<process, m_loadedModules, m_patchTable, m_dbghlpBase, attached>>
    /\ ModuleFrame

\* The test that the outermost CaptureContext makes when it is destroyed, for a call
\* from the module hModule.
CallIsExcludedModule(hModule) ==
    /\ hModule \in process
    /\ lastOp' = [NoOp EXCEPT !.op = "IsExcludedModule", !.module = hModule,
                              !.result = IsExcludedModule(hModule, m_dbghlpBase,
                                             m_patchTable, moduleSets[m_loadedModules])]
    /\ UNCHANGED moduleVars
    /\ ModuleFrame

NextModules ==
    \/ \E m \in Modules : LoadModule(m)
    \/ \E m \in Modules : UnloadModule(m)
    \/ CallRefreshModules
    \/ \E m \in Modules, on \in BOOLEAN : CallChangeModuleState(m, on)
    \/ \E m \in Modules : CallIsExcludedModule(m)

SpecModules == Init /\ [][NextModules]_vars

(***************************************************************************)
(* The loader's calls of module entry points through the patched loader:   *)
(* LdrpCallInitRoutine, step by step, on several threads.                  *)
(***************************************************************************)
Reasons == {"DLL_PROCESS_ATTACH", "DLL_THREAD_ATTACH", "DLL_THREAD_DETACH",
            "DLL_PROCESS_DETACH"}

HookFrame ==
    UNCHANGED <<ledgerVars, m_options, reportLog, memHdr, outVars, threadVars,
                markSerial, ref, loaderVars, lockVars, csVars>>

\* The test of line 94 answering that no Reason calls for a refresh.
NeedsRefresh_Never(Reason) == FALSE
\* The test of line 94.
NeedsRefresh(Reason) == Reason = "DLL_PROCESS_ATTACH"

\* The loader, on thread t, calls the entry point of the module at BaseAddress through
\* the detour: LdrpCallInitRoutine takes the loader lock.
LdrpEnter(t, BaseAddress, Reason) ==
    /\ hookCall[t].pc = "idle"
    /\ loaderLock = 0
    /\ BaseAddress \in process
    /\ loaderLock' = t
    /\ hookCall' = [hookCall EXCEPT ![t] = [NoHook EXCEPT !.pc = "locked",
                                               !.BaseAddress = BaseAddress,
                                               !.Reason = Reason]]
    /\ lastOp' = [NoOp EXCEPT !.op = "LdrpCallInitRoutine", !.threadId = t,
                              !.module = BaseAddress]
    /\ UNCHANGED <<moduleVars, waiter, exit>>
    /\ HookFrame

\* Lines 94-96: g_vld.RefreshModules() when the Reason asks for it.
LdrpRefresh(t) ==
    /\ hookCall[t].pc = "locked"
    /\ IF NeedsRefresh(hookCall[t].Reason)
       THEN /\ RefreshModules
            /\ hookCall' = [hookCall EXCEPT ![t].pc = "refreshed",
                                            ![t].refreshed =
                                                m_loadedModules' # m_loadedModules]
       ELSE /\ UNCHANGED <<moduleSets, m_loadedModules, m_patchTable, attached>>
            /\ hookCall' = [hookCall EXCEPT ![t].pc = "refreshed"]
    /\ lastOp' = [NoOp EXCEPT !.op = "RefreshModules", !.threadId = t,
                              !.module = hookCall[t].BaseAddress]
    /\ UNCHANGED <<process, m_dbghlpBase, loaderLock, waiter, exit>>
    /\ HookFrame

\* Line 98: the entry point is called and returns the value returned.
LdrpEntryPoint(t, returned) ==
    /\ hookCall[t].pc = "refreshed"
    /\ hookCall' = [hookCall EXCEPT ![t].pc = "called", ![t].invoked = @ + 1,
                                    ![t].returned = returned]
    /\ lastOp' = [NoOp EXCEPT !.op = "EntryPoint", !.threadId = t,
                              !.module = hookCall[t].BaseAddress]
    /\ UNCHANGED <<moduleVars, loaderLock, waiter, exit>>
    /\ HookFrame

\* Line 98: LdrpCallInitRoutine returns, and its LoaderLock releases the loader lock.
LdrpReturn(t) ==
    /\ hookCall[t].pc = "called"
    /\ loaderLock' = 0
    /\ hookCall' = [hookCall EXCEPT ![t] = NoHook]
    /\ lastOp' = [NoOp EXCEPT !.op = "return", !.threadId = t,
                              !.module = hookCall[t].BaseAddress,
                              !.result = hookCall[t].returned]
    /\ UNCHANGED <<moduleVars, waiter, exit>>
    /\ HookFrame

\* Modules come and go, and the loader calls their entry points, with the detector
\* installed or turned off.
NextHook ==
    \/ \E m \in Modules : LoadModule(m)
    \/ \E m \in Modules : UnloadModule(m)
    \/ \E t \in Threads, m \in Modules, r \in Reasons : LdrpEnter(t, m, r)
    \/ \E t \in Threads : LdrpRefresh(t)
    \/ \E t \in Threads, returned \in BOOLEAN : LdrpEntryPoint(t, returned)
    \/ \E t \in Threads : LdrpReturn(t)

SpecHook == (Init \/ InitOff) /\ [][NextHook]_vars

(***************************************************************************)
(* waitForAllVLDThreads, one iteration of its loop at a time.              *)
(***************************************************************************)
\* The threads that may have entered the detector's code.
MaxWaited == 12
WaitThreads == 1..MaxWaited
\* The polls that time out before the wait gives up (line 554).
MaxTimeouts == 9

\* What the system answers for a thread of the map: OpenThread fails, the thread's id
\* belongs to another process, the thread ends within the ten seconds, or it does not.
Answers == {"unopened", "recycled", "signaled", "timeout"}

WaitFrame ==
    UNCHANGED <<ledgerVars, m_options, memHdr, outVars, m_status, ccStack, suspended,
                markSerial, ref, loaderVars, lockVars, moduleVars, loaderLock, hookCall,
                exit, csVars>>

\* One iteration of the loop (528-563) that never gives up.
visit_Patient(W, u, answer) ==
    LET V == [W EXCEPT !.tlsit = u, !.visited = u]
    IN IF u = W.current THEN [V EXCEPT !.answer = "self"]
       ELSE IF answer \in {"unopened", "recycled"} THEN [V EXCEPT !.answer = answer]
       ELSE IF answer = "timeout"
       THEN [V EXCEPT !.answer = answer, !.polls = @ + 1, !.waitcount = @ + 1,
                      !.threadsactive = TRUE]
       ELSE [V EXCEPT !.answer = answer, !.polls = @ + 1]

\* One iteration of the loop (528-563), for the entry of thread u.
visit(W, u, answer) ==
    LET V == [W EXCEPT !.tlsit = u, !.visited = u]
    IN IF u = W.current THEN [V EXCEPT !.answer = "self"]
       ELSE IF answer \in {"unopened", "recycled"} THEN [V EXCEPT !.answer = answer]
       ELSE IF answer = "timeout"
       THEN LET T == [V EXCEPT !.answer = answer, !.polls = @ + 1, !.waitcount = @ + 1,
                               !.threadsactive = TRUE]
            IN IF T.waitcount >= MaxTimeouts
               THEN [T EXCEPT !.pc = "done", !.m_tlsLock = 0, !.result = T.threadsactive]
               ELSE T
       ELSE [V EXCEPT !.answer = answer, !.polls = @ + 1]

\* The entries of the map that the iterator has not passed.
Unvisited(T, W) == {u \in DOMAIN T : u > W.tlsit}
Min(S) == CHOOSE x \in S : \A y \in S : x <= y

\* A thread enters the detector's code for the first time: getTls gives it an entry.
ThreadEnters(t) ==
    /\ waiter.pc = "idle"
    /\ t \notin DOMAIN m_tlsMap
    /\ \A u \in 1..(t - 1) : u \in DOMAIN m_tlsMap
    /\ m_tlsMap' = getTls(m_tlsMap, t)
    /\ reportLog' = <<>>
    /\ lastOp' = [NoOp EXCEPT !.op = "getTls", !.threadId = t]
    /\ UNCHANGED waiter
    /\ WaitFrame

\* Lines 522-527: thread current calls waitForAllVLDThreads and takes m_tlsLock.
CallWaitForAllVLDThreads(current) ==
    /\ waiter.pc = "idle"
    /\ waiter' = [NoWait EXCEPT !.pc = "loop", !.current = current,
                                !.m_tlsLock = current]
    /\ reportLog' = <<>>
    /\ lastOp' = [NoOp EXCEPT !.op = "waitForAllVLDThreads", !.threadId = current]
    /\ UNCHANGED m_tlsMap
    /\ WaitFrame

\* Lines 528-563: the next entry of the map, or the return of line 564.
WaitVisit(answer) ==
    /\ waiter.pc = "loop"
    /\ IF Unvisited(m_tlsMap, waiter) = {}
       THEN /\ waiter' = [waiter EXCEPT !.pc = "done", !.m_tlsLock = 0,
                                        !.result = waiter.threadsactive]
            /\ answer = "timeout"
            /\ reportLog' = <<>>
       ELSE LET u == Min(Unvisited(m_tlsMap, waiter))
                W == visit(waiter, u, answer)
            IN /\ u = waiter.current => answer = "timeout"
               /\ waiter' = W
               /\ reportLog' = IF W.answer = "timeout" /\ W.pc = "loop"
                                THEN <<"waiting">> ELSE <<>>
    /\ lastOp' = [NoOp EXCEPT !.op = "waitForAllVLDThreads",
                              !.threadId = waiter.current,
                              !.result = waiter'.result]
    /\ UNCHANGED m_tlsMap
    /\ WaitFrame

\* Threads enter the detector and, at the end, one thread waits for the others.
NextWait ==
    \/ \E t \in WaitThreads : ThreadEnters(t)
    \/ \E current \in WaitThreads : CallWaitForAllVLDThreads(current)
    \/ \E answer \in Answers : WaitVisit(answer)

SpecWait == Init /\ [][NextWait]_vars
\* The thread that waits keeps running.
SpecWaitFair == SpecWait /\ WF_vars(\E answer \in Answers : WaitVisit(answer))

(***************************************************************************)
(* The process's detach: DllEntryPoint(DLL_PROCESS_DETACH), which destroys *)
(* the detector and then restores the loader.                              *)
(***************************************************************************)
DetachFrame == UNCHANGED <<m_options, memHdr, m_status, ccStack, suspended, markSerial,
                           ref, lockVars, hookCall, csVars>>

\* Lines 298-300 and 614-621: _CRT_INIT destroys the detector, on thread 1; the
\* destructor takes the loader lock and returns at once when the detector is off.
DllDetach ==
    /\ exit.pc = "running"
    /\ patch.nPatchSize # 0
    /\ loaderLock = 0
    /\ waiter.pc = "idle"
    /\ \A t \in Threads : ccStack[t] = <<>>
    /\ exit' = [exit EXCEPT !.pc = IF "VLD_OPT_VLDOFF" \in m_options
                                   THEN "destroyed" ELSE "detaching"]
    /\ loaderLock' = IF "VLD_OPT_VLDOFF" \in m_options THEN 0 ELSE 1
    /\ reportLog' = <<>>
    /\ NoOutput
    /\ lastOp' = [NoOp EXCEPT !.op = "DllEntryPoint", !.threadId = 1]
    /\ UNCHANGED <<ledgerVars, m_tlsMap, loaderVars, moduleVars, waiter>>
    /\ DetachFrame

\* Lines 623-634: the imports of every module are restored, and the destructor calls
\* waitForAllVLDThreads.
DetachModules ==
    /\ exit.pc = "detaching"
    /\ attached' = {}
    /\ exit' = [exit EXCEPT !.pc = "waiting", !.log = Append(@, "imports restored")]
    /\ waiter' = [NoWait EXCEPT !.pc = "loop", !.current = 1, !.m_tlsLock = 1]
    /\ reportLog' = <<>>
    /\ NoOutput
    /\ lastOp' = [NoOp EXCEPT !.op = "detachFromModule", !.threadId = 1]
    /\ UNCHANGED <<ledgerVars, m_tlsMap, loaderVars, process, moduleSets, m_loadedModules,
                   m_patchTable, m_dbghlpBase, loaderLock>>
    /\ DetachFrame

\* Lines 636-655: the warning that the detection was never enabled, or the report.
FinalReport ==
    LET R == ReportLeaks(Ledger, AnyThread)
    IN /\ exit.pc = "waiting"
       /\ waiter.pc = "done"
       /\ IF "VLD_STATUS_NEVER_ENABLED" \in m_status
          THEN /\ reportLog' = <<"never enabled">>
               /\ NoOutput
               /\ UNCHANGED ledgerVars
               /\ exit' = [exit EXCEPT !.pc = "reported"]
          ELSE /\ SetLedger(R.L)
               /\ retval' = R.leaksFound
               /\ leakEntries' = R.out
               /\ exit' = [exit EXCEPT !.pc = "reported",
                                       !.log = Append(@, "final report")]
       /\ lastOp' = [NoOp EXCEPT !.op = "ReportLeaks", !.threadId = 1]
       /\ UNCHANGED <<m_tlsMap, loaderVars, moduleVars, loaderLock, waiter>>
       /\ DetachFrame

\* Lines 664-686 and 722: the ledger, the set of loaded modules and the thread-state
\* map are deleted, and the destructor returns.
Teardown ==
    /\ exit.pc = "reported"
    /\ m_heapMap' = EmptyMap
    /\ blockinfos' = EmptyMap
    /\ moduleSets' = EmptyMap
    /\ m_tlsMap' = EmptyMap
    /\ exit' = [exit EXCEPT !.pc = "destroyed",
                            !.log = @ \o <<"ledger freed", "modules freed",
                                           "thread states freed">>]
    /\ loaderLock' = 0
    /\ reportLog' = <<>>
    /\ NoOutput
    /\ lastOp' = [NoOp EXCEPT !.op = "~VisualLeakDetector", !.threadId = 1]
    /\ UNCHANGED <<m_requestCurr, m_totalAlloc, m_curAlloc, m_maxAlloc, loaderVars,
                   process, m_loadedModules, m_patchTable, m_dbghlpBase, attached, waiter>>
    /\ DetachFrame

\* Lines 302-304: NtDllRestore(patch).
DllRestore(vpPatch, vpDetour) ==
    LET r == NtDllRestore(patch, ntdll, vpPatch, vpDetour)
    IN /\ exit.pc = "destroyed"
       /\ patch' = r.P
       /\ ntdll' = r.M
       /\ exit' = [exit EXCEPT !.pc = "exited",
                               !.log = IF r.result THEN Append(@, "loader restored")
                                       ELSE @]
       /\ reportLog' = <<>>
       /\ NoOutput
       /\ lastOp' = [NoOp EXCEPT !.op = "NtDllRestore", !.result = r.result,
                                 !.wrote = r.wrote]
       /\ UNCHANGED <<ledgerVars, m_tlsMap, patched, image, moduleVars, loaderLock, waiter>>
       /\ DetachFrame

\* The process from its attach, where DllEntryPoint patches the loader, to its detach:
\* thread 1 allocates and switches the detection on, and threads enter the detector.
NextDetach ==
    \/ /\ exit.pc = "running"
       /\ \/ \E param \in {0, 7}, spare \in {0, 32} : MapNtDll(param, 2, spare, FALSE)
          \/ \E vpPatch \in BOOLEAN : patch.nPatchSize = 0 /\ CallNtDllPatch(TRUE, vpPatch)
          \/ \E h \in OneHeap, a \in Addrs :
                /\ m_requestCurr <= MaxAllocs
                /\ FreeAddr(h, a, MaxAllocs)
                /\ HookedAlloc(1, 1, 1, h, a, 1, FALSE)
          \/ CallGlobalEnableLeakDetection(1)
          \/ \E t \in 1..3 : ThreadEnters(t)
    \/ DllDetach
    \/ DetachModules
    \/ \E answer \in {"signaled", "timeout"} : WaitVisit(answer)
    \/ FinalReport
    \/ Teardown
    \/ \E vpPatch \in BOOLEAN, vpDetour \in BOOLEAN : DllRestore(vpPatch, vpDetour)

SpecDetach == (Init \/ InitDisabled \/ InitOff) /\ [][NextDetach]_vars

(***************************************************************************)
(* The ledger's operations called from several threads. Each operation     *)
(* constructs a CriticalSectionLocker on g_heapMapLock before it touches   *)
(* the ledger and destroys it when it returns. Between the two the thread  *)
(* reads the ledger and then writes what it computed from what it read;    *)
(* the steps of different threads interleave as the lock lets them. The    *)
(* critical section is re-entrant: the lockers that remapBlock's calls of  *)
(* unmapBlock and mapBlock construct on the owning thread are not steps.   *)
(***************************************************************************)
LockedOps ==
    {"mapHeap", "mapBlock", "unmapBlock", "unmapHeap", "remapBlock", "GetLeaksCount",
     "ReportLeaks", "MarkAllLeaksAsReported"}

Plain(L) == [L EXCEPT !.log = <<>>, !.pblockInfo = NULL]

\* What the operation of call c, made by thread t, computes from the ledger L.
Perform(L, t, c) ==
    CASE c.op = "mapHeap" -> [L |-> mapHeap(L, c.heap), result |-> 0]
      [] c.op = "mapBlock" ->
            [L |-> mapBlock(L, c.heap, c.mem, c.size, FALSE, FALSE, t), result |-> 0]
      [] c.op = "unmapBlock" -> [L |-> unmapBlock(L, c.heap, c.mem), result |-> 0]
      [] c.op = "unmapHeap" -> [L |-> unmapHeap(L, c.heap), result |-> 0]
      [] c.op = "remapBlock" ->
            [L |-> remapBlock(L, c.heap, c.mem, c.newmem, c.size, FALSE, FALSE, t),
             result |-> 0]
      [] c.op = "GetLeaksCount" -> GetLeaksCount(L, AnyThread)
      [] c.op = "ReportLeaks" ->
            LET R == ReportLeaks(L, AnyThread) IN [L |-> R.L, result |-> R.leaksFound]
      [] c.op = "MarkAllLeaksAsReported" ->
            [L |-> MarkAllLeaksAsReported(L, AnyThread), result |-> 0]

LockedAddrs == {1, 2}

LockFrame ==
    UNCHANGED <<m_options, memHdr, threadVars, markSerial, ref, loaderVars, moduleVars, processVars>>

\* Thread t calls the operation and comes to its CriticalSectionLocker.
CallLocked(t, op, heap, mem, newmem, size) ==
    /\ inCall[t].pc = "idle"
    /\ op \in {"mapBlock", "remapBlock"} => serial.requestCurr <= MaxBlocks
    /\ inCall' = [inCall EXCEPT ![t] = [NoCall EXCEPT !.op = op, !.heap = heap,
                                                      !.mem = mem, !.newmem = newmem,
                                                      !.size = size, !.pc = "lock"]]
    /\ UNCHANGED <<ledgerVars, reportLog, outVars, g_heapMapLock, serial, lastOp>>
    /\ LockFrame

\* A locker that does not wait for the owner of the critical section.
Enter_NoWait(t) ==
    /\ inCall[t].pc = "lock"
    /\ g_heapMapLock' = t
    /\ serial' = Plain(Perform(serial, t, inCall[t]).L)
    /\ inCall' = [inCall EXCEPT ![t].pc = "read",
                                ![t].expect = Perform(serial, t, inCall[t]).result]
    /\ UNCHANGED <<ledgerVars, reportLog, outVars, lastOp>>
    /\ LockFrame

\* The constructor of the CriticalSectionLocker: the thread enters the critical
\* section when no other thread owns it.
Enter(t) ==
    /\ inCall[t].pc = "lock"
    /\ g_heapMapLock = 0
    /\ g_heapMapLock' = t
    /\ serial' = Plain(Perform(serial, t, inCall[t]).L)
    /\ inCall' = [inCall EXCEPT ![t].pc = "read",
                                ![t].expect = Perform(serial, t, inCall[t]).result]
    /\ UNCHANGED <<ledgerVars, reportLog, outVars, lastOp>>
    /\ LockFrame

\* The operation's reads of the heap map, the block maps and the counters.
ReadLedger(t) ==
    /\ inCall[t].pc = "read"
    /\ inCall' = [inCall EXCEPT ![t].pc = "write", ![t].seen = Ledger]
    /\ UNCHANGED <<ledgerVars, reportLog, outVars, g_heapMapLock, serial, lastOp>>
    /\ LockFrame

\* The operation's writes, computed from what it read.
WriteLedger(t) ==
    /\ inCall[t].pc = "write"
    /\ LET r == Perform(inCall[t].seen, t, inCall[t])
       IN /\ SetLedger(r.L)
          /\ retval' = r.result
          /\ inCall' = [inCall EXCEPT ![t].pc = "leave", ![t].seen = NoLedger,
                                      ![t].result = r.result]
    /\ leakEntries' = <<>>
    /\ lastOp' = [NoOp EXCEPT !.op = inCall[t].op]
    /\ UNCHANGED <<g_heapMapLock, serial>>
    /\ LockFrame

\* The destructor of the CriticalSectionLocker, when the operation returns.
Leave(t) ==
    /\ inCall[t].pc = "leave"
    /\ g_heapMapLock' = IF g_heapMapLock = t THEN 0 ELSE g_heapMapLock
    /\ inCall' = [inCall EXCEPT ![t] = NoCall]
    /\ UNCHANGED <<ledgerVars, reportLog, outVars, serial, lastOp>>
    /\ LockFrame

NextLocked ==
    \/ \E t \in Threads, op \in LockedOps, a \in LockedAddrs, b \in LockedAddrs :
          /\ op # "mapBlock" => a = 1
          /\ op = "remapBlock" => a = 1
          /\ op # "remapBlock" => b = 1
          /\ CallLocked(t, op, 1, a, b, 1)
    \/ \E t \in Threads : Enter(t)
    \/ \E t \in Threads : ReadLedger(t)
    \/ \E t \in Threads : WriteLedger(t)
    \/ \E t \in Threads : Leave(t)

SpecLocked == Init /\ [][NextLocked]_vars

(***************************************************************************)
(* The critical sections. Every operation enters a critical section by     *)
(* constructing a CriticalSectionLocker and leaves it when the locker goes *)
(* out of scope, at the end of the block or at a return. An operation is a *)
(* sequence of steps: the lockers it constructs and destroys, and between  *)
(* them what it does to the structure that the critical section protects.  *)
(* The steps of the operations that an operation calls are part of its own *)
(* steps. A critical section can be entered again by the thread that owns  *)
(* it and is free when the owner has left it as often as it entered it.    *)
(***************************************************************************)
Acquire(l) == [do |-> "acquire", lock |-> l, module |-> 0]
Release(l) == [do |-> "release", lock |-> l, module |-> 0]
Do(what) == [do |-> what, lock |-> "none", module |-> 0]
Find(m) == [do |-> "find", lock |-> "none", module |-> m]

\* The scope of a CriticalSectionLocker on l that has the steps of body in it.
Locked(l, body) == <<Acquire(l)>> \o body \o <<Release(l)>>

\* unmapHeap whose locker is not destroyed when it returns.
unmapHeapSteps_Held == <<Acquire("g_heapMapLock")>>

\* unmapHeap (1511-1534), called by an operation that has updated the ledger.
unmapHeapSteps == Locked("g_heapMapLock", <<>>)

\* mapHeap (1406-1425): it calls unmapHeap for a heap that the map holds already.
mapHeapNested(L, heap) == IF heap \in DOMAIN L.heapMap THEN unmapHeapSteps ELSE <<>>
mapHeapSteps(L, heap) == Locked("g_heapMapLock", mapHeapNested(L, heap))

\* mapBlock (1349-1380): it calls mapHeap for a heap that the map does not hold.
mapBlockNested(L, heap) ==
    IF heap \notin DOMAIN L.heapMap THEN mapHeapSteps(L, heap) ELSE <<>>
mapBlockSteps(L, heap) == Locked("g_heapMapLock", mapBlockNested(L, heap))

\* findAllocedBlock (1957-1977).
findAllocedBlockSteps == Locked("g_heapMapLock", <<>>)

\* unmapBlock (1438-1499): no locker for a NULL block; findAllocedBlock for a block
\* that the heap's map does not hold, with VLD_OPT_VALIDATE_HEAPFREE.
unmapBlockNested(L, heap, mem) ==
    IF /\ heap \in DOMAIN L.heapMap
       /\ mem \notin DOMAIN L.heapMap[heap].blockMap
       /\ "VLD_OPT_VALIDATE_HEAPFREE" \in m_options
    THEN findAllocedBlockSteps
    ELSE <<>>
unmapBlockSteps(L, heap, mem) ==
    IF mem = NULL THEN <<>> ELSE Locked("g_heapMapLock", unmapBlockNested(L, heap, mem))

\* remapBlock (1562-1596): unmapBlock and mapBlock for a block that has moved,
\* mapBlock for a block that the ledger does not hold.
remapBlockNested(L, heap, mem, newmem) ==
    IF newmem # mem
    THEN unmapBlockSteps(L, heap, mem) \o mapBlockSteps(unmapBlock(L, heap, mem), heap)
    ELSE IF heap \notin DOMAIN L.heapMap THEN mapBlockSteps(L, heap)
    ELSE IF mem \notin DOMAIN L.heapMap[heap].blockMap THEN mapBlockSteps(L, heap)
    ELSE <<>>

\* eraseDuplicates (1251-1290).
eraseDuplicatesSteps == Locked("g_heapMapLock", <<>>)

RECURSIVE Times(_, _)
Times(steps, n) == IF n = 0 THEN <<>> ELSE steps \o Times(steps, n - 1)

\* reportHeapLeaks (1770-1792): reportLeaks calls eraseDuplicates for every entry
\* that it writes, with VLD_OPT_AGGREGATE_DUPLICATES (line 1897).
reportHeapLeaks(L, heap) ==
    IF heap \notin DOMAIN L.heapMap
    THEN [L |-> L, out |-> <<>>, leaksFound |-> 0]
    ELSE reportLeaks(L, <<>>, heap, TRUE, {}, AnyThread)
reportHeapLeaksNested(L, heap) ==
    IF "VLD_OPT_AGGREGATE_DUPLICATES" \in m_options
    THEN Times(eraseDuplicatesSteps, Len(reportHeapLeaks(L, heap).out))
    ELSE <<>>

\* The operations of the ledger, and the steps of the operations that each calls
\* while it owns g_heapMapLock.
LedgerCalls == {"mapHeap", "mapBlock", "unmapBlock", "unmapHeap", "remapBlock", "reportHeapLeaks"}

LedgerNested(L, c) ==
    CASE c.op = "mapHeap" -> mapHeapNested(L, c.heap)
      [] c.op = "mapBlock" -> mapBlockNested(L, c.heap)
      [] c.op = "unmapBlock" -> unmapBlockNested(L, c.heap, c.mem)
      [] c.op = "unmapHeap" -> <<>>
      [] c.op = "remapBlock" -> remapBlockNested(L, c.heap, c.mem, c.newmem)
      [] c.op = "reportHeapLeaks" -> reportHeapLeaksNested(L, c.heap)

LedgerAfter(L, t, c) ==
    IF c.op = "reportHeapLeaks" THEN reportHeapLeaks(L, c.heap).L ELSE Perform(L, t, c).L

\* The operations of the options and of the thread states. GlobalDisableLeakDetection
\* (2563-2581) and GlobalEnableLeakDetection (2583-2602) enter m_optionsLock and then
\* m_tlsLock; SetOptions (2615-2635) calls GlobalDisableLeakDetection while it owns
\* m_optionsLock; getTls (1295-1327) enters m_tlsLock when the thread has no tls_t;
\* waitForAllVLDThreads (520-565) owns m_tlsLock while it waits.
\* GlobalDisableLeakDetection that constructs the locker of getTls while it owns
\* m_tlsLock.
GlobalDisableSteps_GetTls ==
    Locked("m_optionsLock",
           <<Do("disable")>> \o Locked("m_tlsLock", Locked("m_tlsLock", <<Do("tls")>>)))

GlobalDisableSteps ==
    Locked("m_optionsLock", <<Do("disable")>> \o Locked("m_tlsLock", <<Do("tls")>>))

\* GlobalEnableLeakDetection that enters m_tlsLock first and m_optionsLock inside it.
GlobalEnableSteps_TlsFirst ==
    Locked("m_tlsLock", Locked("m_optionsLock", <<Do("enable")>>) \o <<Do("tls")>>)

GlobalEnableSteps ==
    Locked("m_optionsLock", <<Do("enable")>> \o Locked("m_tlsLock", <<Do("tls")>>))

OptionCalls == {"SetOptions", "GlobalDisableLeakDetection", "GlobalEnableLeakDetection"}
TlsCalls == {"getTls", "waitForAllVLDThreads"}

\* The module registry. isModuleExcluded (2341-2354) and ChangeModuleState
\* (2470-2489) find the module in the set that m_loadedModules points to and read or
\* write its flags; RefreshModules (2311-2338) enumerates the modules into a new set,
\* attaches to them (getModuleState, 731-764, for each), and replaces the set.
RegistryCalls == {"isModuleExcluded", "ChangeModuleState", "RefreshModules"}

getModuleStateSteps(m) == Locked("m_modulesLock", <<Find(m), Do("flags")>>)

RECURSIVE attachSteps(_)
attachSteps(modules) ==
    IF modules = <<>> THEN <<>>
    ELSE getModuleStateSteps(Head(modules)) \o attachSteps(Tail(modules))

\* attachToLoadedModules (786-915): the symbol handler is locked from line 789 to the
\* return. The loader lock of line 788 is owned by RefreshModules already.
attachToLoadedModulesSteps(newmodules) ==
    Locked("g_DbgHelp", attachSteps(SortedSeq(DOMAIN newmodules)))

\* RefreshModules that replaces the set before it enters the critical section.
replaceSteps_Unlocked == <<Do("swap"), Do("delete")>> \o Locked("m_modulesLock", <<>>)

replaceSteps == Locked("m_modulesLock", <<Do("swap"), Do("delete")>>)

\* The steps of a call of thread t, from its first to its return, as far as they
\* are known when it is made.
Steps(t, c) ==
    CASE c.op \in LedgerCalls ->
            IF c.op = "unmapBlock" /\ c.mem = NULL THEN <<>>
            ELSE Locked("g_heapMapLock", <<Do("ledger")>>)
      [] c.op = "SetOptions" ->
            IF "VLD_OPT_VLDOFF" \in m_options THEN <<>>
            ELSE Locked("m_optionsLock", <<Do("options")>>)
      [] c.op = "GlobalDisableLeakDetection" ->
            IF "VLD_OPT_VLDOFF" \in m_options THEN <<>> ELSE GlobalDisableSteps
      [] c.op = "GlobalEnableLeakDetection" ->
            IF "VLD_OPT_VLDOFF" \in m_options THEN <<>> ELSE GlobalEnableSteps
      [] c.op = "getTls" ->
            IF t \in DOMAIN m_tlsMap THEN <<>> ELSE Locked("m_tlsLock", <<Do("tls")>>)
      [] c.op = "waitForAllVLDThreads" -> Locked("m_tlsLock", <<Do("wait")>>)
      [] c.op = "isModuleExcluded" -> Locked("m_modulesLock", <<Find(c.module), Do("flags")>>)
      [] c.op = "ChangeModuleState" -> Locked("m_modulesLock", <<Find(c.module), Do("flags")>>)
      [] c.op = "RefreshModules" -> <<Do("enumerate")>>

\* What the steps leave alone.
OnlyCalls ==
    UNCHANGED <<ledgerVars, m_options, reportLog, memHdr, outVars, threadVars, markSerial,
                ref, loaderVars, lockVars, moduleVars, loaderLock, hookCall, waiter, exit,
                lastOp>>
NotLedger ==
    UNCHANGED <<memHdr, m_status, ccStack, suspended, markSerial, ref, loaderVars, lockVars,
                hookCall, waiter, exit, lastOp>>

Running(t, what) ==
    /\ calls[t].pc = "running"
    /\ calls[t].steps # <<>>
    /\ Head(calls[t].steps).do = what

\* The step is done; more are the steps that it has found the call to need next.
Advance(t, more) == [calls[t] EXCEPT !.steps = more \o Tail(@)]

\* Thread t calls an operation.
Call(t, c) ==
    /\ calls[t].pc = "idle"
    /\ calls' = [calls EXCEPT ![t] = [c EXCEPT !.pc = "running", !.steps = Steps(t, c)]]
    /\ UNCHANGED locks
    /\ OnlyCalls

\* A critical section that a thread enters while another owns it.
MayEnter_Always(cs, t) == TRUE

\* Whether thread t may enter the critical section whose state is cs.
MayEnter(cs, t) == cs.owner \in {0, t}

\* The constructor of a CriticalSectionLocker.
LockerEnter(t) ==
    /\ Running(t, "acquire")
    /\ LET l == Head(calls[t].steps).lock
       IN /\ MayEnter(locks[l], t)
          /\ locks' = [locks EXCEPT ![l] = [owner |-> t,
                                           count |-> IF @.owner = t THEN @.count + 1 ELSE 1]]
          /\ calls' = [calls EXCEPT ![t] =
                          [Advance(t, <<>>) EXCEPT
                              !.entered = @ \cup {l},
                              !.nested = IF locks[l].owner = t THEN @ \cup {l} ELSE @]]
    /\ OnlyCalls

\* The destructor of a CriticalSectionLocker.
LockerLeave(t) ==
    /\ Running(t, "release")
    /\ LET l == Head(calls[t].steps).lock
       IN locks' = [locks EXCEPT ![l] = IF @.owner # t THEN @
                                        ELSE IF @.count = 1 THEN Unowned
                                        ELSE [@ EXCEPT !.count = @ - 1]]
    /\ calls' = [calls EXCEPT ![t] = Advance(t, <<>>)]
    /\ OnlyCalls

\* The operation on the ledger, and the calls that it makes.
DoLedger(t) ==
    /\ Running(t, "ledger")
    /\ SetLedger(LedgerAfter(Ledger, t, calls[t]))
    /\ leakEntries' = IF calls[t].op = "reportHeapLeaks"
                      THEN reportHeapLeaks(Ledger, calls[t].heap).out ELSE <<>>
    /\ retval' = IF calls[t].op = "reportHeapLeaks"
                 THEN reportHeapLeaks(Ledger, calls[t].heap).leaksFound ELSE 0
    /\ calls' = [calls EXCEPT ![t] = Advance(t, LedgerNested(Ledger, calls[t]))]
    /\ UNCHANGED <<m_options, m_tlsMap, moduleVars, loaderLock, locks>>
    /\ NotLedger

\* Lines 2623-2634 of SetOptions, 2571 of GlobalDisableLeakDetection and 2591 of
\* GlobalEnableLeakDetection: the options.
DoOptions(t) ==
    /\ \/ /\ Running(t, "options")
          /\ LET o == SetOptions(EmptyMap, m_options, calls[t].option_mask).options
             IN /\ m_options' = o
                /\ calls' = [calls EXCEPT ![t] =
                                Advance(t, IF "VLD_OPT_START_DISABLED" \in o
                                           THEN GlobalDisableSteps ELSE <<>>)]
       \/ /\ Running(t, "disable")
          /\ m_options' = GlobalDisableLeakDetection(EmptyMap, m_options).options
          /\ calls' = [calls EXCEPT ![t] = Advance(t, <<>>)]
       \/ /\ Running(t, "enable")
          /\ m_options' = GlobalEnableLeakDetection(EmptyMap, m_options).options
          /\ calls' = [calls EXCEPT ![t] = Advance(t, <<>>)]
    /\ reportLog' = <<>>
    /\ UNCHANGED <<ledgerVars, outVars, m_tlsMap, moduleVars, loaderLock, locks>>
    /\ NotLedger

\* Lines 1304-1321 of getTls, 2575-2580 of GlobalDisableLeakDetection and 2596-2601
\* of GlobalEnableLeakDetection: the map of the thread states.
DoTls(t) ==
    /\ Running(t, "tls")
    /\ m_tlsMap' =
          IF calls[t].op = "getTls" THEN getTls(m_tlsMap, t)
          ELSE IF calls[t].op = "GlobalEnableLeakDetection"
          THEN GlobalEnableLeakDetection(m_tlsMap, m_options).T
          ELSE GlobalDisableLeakDetection(m_tlsMap, m_options).T
    /\ calls' = [calls EXCEPT ![t] = Advance(t, <<>>)]
    /\ reportLog' = <<>>
    /\ UNCHANGED <<ledgerVars, outVars, m_options, moduleVars, loaderLock, locks>>
    /\ NotLedger

\* The loop of waitForAllVLDThreads (528-563) when the polls of timeouts of the
\* other threads of the map time out: the return of line 558 at the ninth, or the
\* return of line 564.
waitForAllVLDThreads(timeouts) ==
    IF timeouts >= MaxTimeouts THEN [threadsactive |-> TRUE, line |-> 558]
    ELSE [threadsactive |-> timeouts > 0, line |-> 564]

DoWait(t, timeouts) ==
    /\ Running(t, "wait")
    /\ timeouts <= Cardinality(DOMAIN m_tlsMap \ {t})
    /\ calls' = [calls EXCEPT ![t] =
                    [Advance(t, <<>>) EXCEPT
                        !.result = waitForAllVLDThreads(timeouts).line]]
    /\ UNCHANGED locks
    /\ OnlyCalls

\* Lines 2313-2328 of RefreshModules: the loader lock, the new set with the modules
\* of the process in it, and the patch table; attachToLoadedModules is to come.
DoEnumerate(t) ==
    /\ Running(t, "enumerate")
    /\ loaderLock = 0
    /\ loaderLock' = t
    /\ IF "VLD_OPT_VLDOFF" \in m_options
       THEN /\ calls' = [calls EXCEPT ![t] = Advance(t, <<Do("loader")>>)]
            /\ UNCHANGED m_patchTable
       ELSE LET e == addLoadedModules(m_patchTable, process)
            IN /\ m_patchTable' = e.table
               /\ calls' = [calls EXCEPT ![t] =
                               [Advance(t, attachToLoadedModulesSteps(e.newmodules)
                                           \o replaceSteps \o <<Do("loader")>>)
                                EXCEPT !.newmodules = e.newmodules]]
    /\ UNCHANGED <<ledgerVars, reportLog, outVars, m_options, m_tlsMap, process, moduleSets,
                   m_loadedModules, m_dbghlpBase, attached, locks>>
    /\ NotLedger

\* The destructor of the LoaderLock of RefreshModules.
DoLoader(t) ==
    /\ Running(t, "loader")
    /\ loaderLock' = 0
    /\ calls' = [calls EXCEPT ![t] = Advance(t, <<>>)]
    /\ UNCHANGED <<ledgerVars, reportLog, outVars, m_options, m_tlsMap, moduleVars, locks>>
    /\ NotLedger

\* Lines 742-743, 2350 and 2475: the thread reads m_loadedModules and looks for the
\* module in the set that it points to.
DoFind(t) ==
    /\ Running(t, "find")
    /\ calls' = [calls EXCEPT ![t] =
                    [Advance(t, <<>>) EXCEPT
                        !.it = m_loadedModules,
                        !.module = Head(calls[t].steps).module,
                        !.accessed = IF m_loadedModules \in DOMAIN moduleSets
                                     THEN "live" ELSE "freed"]]
    /\ UNCHANGED locks
    /\ OnlyCalls

\* Lines 744-747, 2351-2353 and 2478-2486: the thread reads or writes the flags of
\* the module in the set that it has searched. In a set that has been deleted it
\* reads whatever the freed memory holds, and what it writes there is lost.
DoFlags(t, garbage) ==
    /\ Running(t, "flags")
    /\ LET c == calls[t]
           live == c.it \in DOMAIN moduleSets
           old == IF live THEN moduleSets[c.it] ELSE [m \in garbage |-> {}]
           a == attachToLoadedModules(old, (c.module :> {}), m_patchTable, attached)
       IN /\ ~live \/ garbage = {}
          /\ moduleSets' = IF c.op = "ChangeModuleState" /\ live
                           THEN [moduleSets EXCEPT ![c.it] =
                                    ChangeModuleState(@, c.module, c.on)]
                           ELSE moduleSets
          /\ attached' = IF c.op = "RefreshModules" THEN a.attached ELSE attached
          /\ calls' = [calls EXCEPT ![t] =
                [Advance(t, <<>>) EXCEPT
                    !.result = IF c.op = "isModuleExcluded" /\ isModuleExcluded(old, c.module)
                               THEN 1 ELSE 0,
                    !.newmodules = IF c.op = "RefreshModules"
                                   THEN [@ EXCEPT ![c.module] = a.newmodules[c.module]]
                                   ELSE @,
                    !.accessed = IF live THEN "live" ELSE "freed"]]
    /\ UNCHANGED <<ledgerVars, reportLog, outVars, m_options, m_tlsMap, process,
                   m_loadedModules, m_patchTable, m_dbghlpBase, loaderLock, locks>>
    /\ NotLedger

\* Lines 2333-2334 of RefreshModules: the new set is the set in use.
DoSwap(t) ==
    /\ Running(t, "swap")
    /\ LET new == CHOOSE q \in 1..2 : q # m_loadedModules
       IN /\ moduleSets' = MapPut(moduleSets, new, calls[t].newmodules)
          /\ m_loadedModules' = new
    /\ calls' = [calls EXCEPT ![t] = [Advance(t, <<>>) EXCEPT !.oldmodules = m_loadedModules]]
    /\ UNCHANGED <<ledgerVars, reportLog, outVars, m_options, m_tlsMap, process,
                   m_patchTable, m_dbghlpBase, attached, loaderLock, locks>>
    /\ NotLedger

\* Line 2337 of RefreshModules: delete oldmodules.
DoDelete(t) ==
    /\ Running(t, "delete")
    /\ moduleSets' = MapErase(moduleSets, calls[t].oldmodules)
    /\ calls' = [calls EXCEPT ![t] = Advance(t, <<>>)]
    /\ UNCHANGED <<ledgerVars, reportLog, outVars, m_options, m_tlsMap, process,
                   m_loadedModules, m_patchTable, m_dbghlpBase, attached, loaderLock, locks>>
    /\ NotLedger

\* The operation returns.
Return(t) ==
    /\ calls[t].pc = "running"
    /\ calls[t].steps = <<>>
    /\ calls' = [calls EXCEPT ![t] = NoOperation]
    /\ lastOp' = [NoOp EXCEPT !.op = calls[t].op, !.threadId = t, !.heap = calls[t].heap,
                              !.mem = calls[t].mem, !.newmem = calls[t].newmem,
                              !.module = calls[t].module, !.entered = calls[t].entered,
                              !.nested = calls[t].nested, !.line = calls[t].result]
    /\ UNCHANGED <<ledgerVars, m_options, reportLog, memHdr, outVars, threadVars, markSerial,
                   ref, loaderVars, lockVars, moduleVars, loaderLock, hookCall, waiter, exit,
                   locks>>

\* The calls of one thread, one after the other. The thread works on one structure
\* at a time: it calls the operations of the ledger, of the thread states or of the
\* registry while the other two are as the constructor left them. The options
\* VLD_OPT_VALIDATE_HEAPFREE and VLD_OPT_AGGREGATE_DUPLICATES change what the
\* ledger's operations call, VLD_OPT_START_DISABLED what SetOptions calls. Other
\* threads enter the detector's code one after the other, after the first.
LedgerMasks == {{}, {"VLD_OPT_VALIDATE_HEAPFREE"}, {"VLD_OPT_AGGREGATE_DUPLICATES"}}
TlsMasks == {{}, {"VLD_OPT_START_DISABLED"}}

LedgerAsConstructed == m_heapMap = EmptyMap /\ m_requestCurr = 1
TlsAsConstructed == m_tlsMap = EmptyMap
RegistryAsConstructed == m_loadedModules = 1 /\ moduleSets = (1 :> Constructed.modules)

NextLocks ==
    \/ \E op \in LedgerCalls, mem \in {NULL, 1}, newmem \in {1, 2} :
          /\ TlsAsConstructed /\ RegistryAsConstructed
          /\ op \in {"mapHeap", "unmapHeap", "reportHeapLeaks"} => mem = NULL /\ newmem = 1
          /\ op = "unmapBlock" => newmem = 1
          /\ op \in {"mapBlock", "remapBlock"} => mem = 1 /\ m_requestCurr <= MaxBlocks
          /\ op = "mapBlock" => newmem = 1
          /\ Call(1, [NoOperation EXCEPT !.op = op, !.heap = 1, !.mem = mem,
                                         !.newmem = newmem, !.size = 1])
    \/ \E option_mask \in LedgerMasks :
          /\ TlsAsConstructed /\ RegistryAsConstructed
          /\ Call(1, [NoOperation EXCEPT !.op = "SetOptions", !.option_mask = option_mask])
    \/ \E op \in OptionCalls, option_mask \in TlsMasks :
          /\ LedgerAsConstructed /\ RegistryAsConstructed
          /\ m_options \in TlsMasks
          /\ op # "SetOptions" => option_mask = {}
          /\ Call(1, [NoOperation EXCEPT !.op = op, !.option_mask = option_mask])
    \/ \E op \in TlsCalls :
          /\ LedgerAsConstructed /\ RegistryAsConstructed
          /\ m_options \in TlsMasks
          /\ Call(1, [NoOperation EXCEPT !.op = op])
    \/ \E u \in WaitThreads \ {1} :
          /\ lastOp.op = "getTls" /\ lastOp.threadId = u - 1
          /\ calls[1].pc = "idle"
          /\ ThreadEnters(u)
    \/ \E op \in RegistryCalls, on \in BOOLEAN :
          /\ LedgerAsConstructed /\ TlsAsConstructed
          /\ m_options = {}
          /\ op # "ChangeModuleState" => ~on
          /\ Call(1, [NoOperation EXCEPT !.op = op, !.module = App, !.on = on])
    \/ \E t \in Threads : LockerEnter(t)
    \/ \E t \in Threads : LockerLeave(t)
    \/ \E t \in Threads : DoLedger(t)
    \/ \E t \in Threads : DoOptions(t)
    \/ \E t \in Threads : DoTls(t)
    \/ \E t \in Threads, timeouts \in 0..MaxTimeouts : DoWait(t, timeouts)
    \/ \E t \in Threads : DoEnumerate(t)
    \/ \E t \in Threads : DoLoader(t)
    \/ \E t \in Threads : DoFind(t)
    \/ \E t \in Threads : DoFlags(t, {})
    \/ \E t \in Threads : DoSwap(t)
    \/ \E t \in Threads : DoDelete(t)
    \/ \E t \in Threads : Return(t)

SpecLocks == Init /\ [][NextLocks]_vars

\* The registry's operations called from two threads while the process loads and
\* unloads a module.
LockModules == {App, Plugin}

NextRegistry ==
    \/ \E t \in Threads, op \in RegistryCalls, module \in LockModules, on \in BOOLEAN :
          /\ op # "ChangeModuleState" => ~on
          /\ op = "RefreshModules" => module = App
          /\ Call(t, [NoOperation EXCEPT !.op = op, !.module = module, !.on = on])
    \/ \E t \in Threads : LockerEnter(t)
    \/ \E t \in Threads : LockerLeave(t)
    \/ \E t \in Threads : DoEnumerate(t)
    \/ \E t \in Threads : DoLoader(t)
    \/ \E t \in Threads : DoFind(t)
    \/ \E t \in Threads, garbage \in {{}, LockModules} : DoFlags(t, garbage)
    \/ \E t \in Threads : DoSwap(t)
    \/ \E t \in Threads : DoDelete(t)
    \/ \E t \in Threads : Return(t)
    \/ LoadModule(Plugin)
    \/ UnloadModule(Plugin)

SpecRegistry == Init /\ [][NextRegistry]_vars

(***************************************************************************)
(* The claims about the ledger.                                            *)
(***************************************************************************)
\* The blockinfo_t objects the block maps reference.
LivePtrs ==
    UNION {{m_heapMap[h].blockMap[a] : a \in DOMAIN m_heapMap[h].blockMap} : h \in DOMAIN m_heapMap}

\* The sum of the sizes of the entries present.
LiveBytes == SumOver([p \in LivePtrs |-> blockinfos[p].size], LivePtrs)

\* C1: between ledger operations (mapBlock, unmapBlock, remapBlock and the heap
\* operations, with collisions, misses and in-place remaps) m_curAlloc equals the sum
\* of the sizes of the BlockInfo entries present for the heap.
C1_CurAllocIsLiveBytes == m_curAlloc = LiveBytes

\* A mapBlock has just collided with a tracked entry while another entry is live.
C1_Witness ==
    /\ lastOp.op = "mapBlock"
    /\ lastOp.owner # 0
    /\ Cardinality(LivePtrs) = 2
    /\ m_curAlloc = 4

\* C2: after any sequence of mapBlock and unmapBlock calls a heap's BlockMap holds an
\* entry at an address exactly when the most recent operation on (heap, address) was a
\* mapBlock, there is one BlockInfo per such entry, its size is the size that mapBlock
\* was given, and current live bytes is the sum of those sizes.
C2_ReferenceMap ==
    /\ \A h \in Heaps, a \in Addrs : Tracked(h, a) <=> <<h, a>> \in DOMAIN ref
    /\ \A k \in DOMAIN ref : blockinfos[m_heapMap[k[1]].blockMap[k[2]]].size = ref[k]
    /\ Cardinality(DOMAIN blockinfos) = Cardinality(DOMAIN ref)
    /\ m_curAlloc = SumOver(ref, DOMAIN ref)

\* Map (H, a, 1), Unmap (H, a), Map (H, a, 2): one entry, of size 2, and 2 live bytes
\* of the 3 allocated in total.
C2_Witness ==
    /\ lastOp.op = "mapBlock" /\ lastOp.owner = 0 /\ lastOp.size = 2
    /\ m_requestCurr = 3
    /\ m_totalAlloc = 3
    /\ m_curAlloc = 2
    /\ DOMAIN ref = {<<lastOp.heap, lastOp.mem>>}
    /\ DOMAIN m_heapMap = {lastOp.heap}

\* C3: a mapBlock on an address that has a tracked entry in the same heap replaces the
\* entry: afterwards the map holds the new BlockInfo at the address, the old BlockInfo
\* is freed and referenced by no map, and the number of allocated BlockInfo objects
\* has not grown.
C3_CollisionReplaces ==
    [][(lastOp'.op = "mapBlock" /\ lastOp'.owner # 0) =>
          LET h == lastOp'.heap
              a == lastOp'.mem
              old == m_heapMap[h].blockMap[a]
          IN /\ h \in DOMAIN m_heapMap' /\ a \in DOMAIN m_heapMap'[h].blockMap
             /\ m_heapMap'[h].blockMap[a] # old
             /\ m_heapMap'[h].blockMap[a] \in DOMAIN blockinfos'
             /\ blockinfos'[m_heapMap'[h].blockMap[a]].serialNumber = m_requestCurr
             /\ blockinfos'[m_heapMap'[h].blockMap[a]].size = lastOp'.size
             /\ old \notin DOMAIN blockinfos'
             /\ \A g \in DOMAIN m_heapMap' : \A x \in DOMAIN m_heapMap'[g].blockMap :
                   m_heapMap'[g].blockMap[x] # old
             /\ Cardinality(DOMAIN blockinfos') = Cardinality(DOMAIN blockinfos)
             /\ DOMAIN m_heapMap'[h].blockMap = DOMAIN m_heapMap[h].blockMap]_vars

\* The third mapBlock in a row on one address: two collide / replace cycles, one object.
C3_Witness ==
    /\ lastOp.op = "mapBlock" /\ lastOp.owner # 0
    /\ m_requestCurr = 4
    /\ m_totalAlloc = 6 /\ m_maxAlloc = 4 /\ m_curAlloc = 2
    /\ Cardinality(DOMAIN blockinfos) = 1

\* A step that is a remapBlock with the old address as the new one, on a tracked block.
InPlaceRemap == lastOp'.op = "remapBlock" /\ lastOp'.mem = lastOp'.newmem /\ lastOp'.owner # 0

\* What remapBlock alone leaves, before the reallocation's own stack is attached.
AfterRemap ==
    remapBlock(Ledger, lastOp'.heap, lastOp'.mem, lastOp'.newmem, lastOp'.size, FALSE, FALSE,
               lastOp'.threadId)

\* C4 as stated: an in-place remapBlock of a tracked block preserves the serial number
\* and the thread id, replaces the size and discards the previous call stack.
C4_PreservesThreadId ==
    [][InPlaceRemap =>
          LET p == m_heapMap[lastOp'.heap].blockMap[lastOp'.mem]
          IN /\ m_heapMap' = m_heapMap
             /\ blockinfos'[p].serialNumber = blockinfos[p].serialNumber
             /\ blockinfos'[p].threadId = blockinfos[p].threadId
             /\ blockinfos'[p].size = lastOp'.size
             /\ AfterRemap.blockinfos[p].callStack = NULL
             /\ blockinfos'[p].callStack = lastOp'.callStack]_vars

\* C4, amended: an in-place remapBlock of a tracked block preserves the serial number,
\* sets the thread id to the calling thread's, replaces the size and discards the
\* previous call stack (the reallocation's own stack is attached in its place).
C4_SetsCallerThreadId ==
    [][InPlaceRemap =>
          LET p == m_heapMap[lastOp'.heap].blockMap[lastOp'.mem]
          IN /\ m_heapMap' = m_heapMap
             /\ blockinfos'[p].serialNumber = blockinfos[p].serialNumber
             /\ blockinfos'[p].threadId = lastOp'.threadId
             /\ blockinfos'[p].size = lastOp'.size
             /\ AfterRemap.blockinfos[p].callStack = NULL
             /\ blockinfos'[p].callStack = lastOp'.callStack]_vars

\* Thread 2 has just remapped in place the block that thread 1 allocated.
C4_Witness ==
    /\ lastOp.op = "remapBlock" /\ lastOp.mem = lastOp.newmem
    /\ lastOp.owner = 1 /\ lastOp.threadId = 2
    /\ m_requestCurr = 2
    /\ blockinfos[m_heapMap[lastOp.heap].blockMap[lastOp.mem]].serialNumber = 1

\* The ledger L with the captured stack attached to the committed blockinfo_t.
WithStack(L, cs) == [L EXCEPT !.blockinfos[L.pblockInfo].callStack = cs]

\* The step leaves the ledger L.
LedgerIs(L) ==
    /\ m_heapMap' = L.heapMap
    /\ blockinfos' = L.blockinfos
    /\ m_requestCurr' = L.requestCurr
    /\ m_totalAlloc' = L.totalAlloc
    /\ m_curAlloc' = L.curAlloc
    /\ m_maxAlloc' = L.maxAlloc

\* C5: a remapBlock to another address leaves the ledger and the counters as
\* unmapBlock of the old address followed by mapBlock of the new one does, whether or
\* not the old address was tracked; an in-place remapBlock of an address that is not
\* tracked (or of a heap that is not) leaves them as mapBlock of the address does.
C5_RemapIsUnmapMap ==
    [][lastOp'.op = "remapBlock" =>
          LET h == lastOp'.heap
              a == lastOp'.mem
              b == lastOp'.newmem
              s == lastOp'.size
              t == lastOp'.threadId
          IN /\ a # b =>
                  LedgerIs(WithStack(mapBlock(unmapBlock(Ledger, h, a), h, b, s, FALSE, FALSE, t),
                                     lastOp'.callStack))
             /\ (a = b /\ ~Tracked(h, a)) =>
                  LedgerIs(WithStack(mapBlock(Ledger, h, b, s, FALSE, FALSE, t),
                                     lastOp'.callStack))]_vars

\* A tracked block has just been remapped to another address.
C5_Witness ==
    /\ lastOp.op = "remapBlock" /\ lastOp.mem # lastOp.newmem /\ lastOp.owner # 0
    /\ ~Tracked(lastOp.heap, lastOp.mem)
    /\ Tracked(lastOp.heap, lastOp.newmem)

(***************************************************************************)
(* The claims about the report.                                            *)
(***************************************************************************)
\* The (heap, address) pairs that are tracked, and the blockinfo_t of one.
LiveKeys == {k \in Heaps \X Addrs : Tracked(k[1], k[2])}
PtrOf(k) == m_heapMap[k[1]].blockMap[k[2]]
InfoOf(k) == blockinfos[PtrOf(k)]

\* The filters of the report: the block is in the CRT's own use (or freed by it); the
\* block's stack is of the CRT's startup code and such blocks are skipped.
IsCrtBlock(k) == InfoOf(k).debugCrtAlloc \/ memHdr[k[2]].valid
CrtOwn(k) == IsCrtBlock(k) /\ memHdr[k[2]].use \in CrtOwnUse
CrtStartup(k) == InfoOf(k).callStack # NULL /\ isCrtStartupAlloc(InfoOf(k).callStack)
Unfiltered(k) ==
    /\ ~InfoOf(k).reported
    /\ ~CrtOwn(k)
    /\ ~("VLD_OPT_SKIP_CRTSTARTUP_LEAKS" \in m_options /\ CrtStartup(k))

\* The size an entry shows for the block: of a CRT block, the size its header gives.
ShownSize(k) == IF IsCrtBlock(k) THEN InfoOf(k).size - CrtOverhead ELSE InfoOf(k).size

\* The blocks the report just written covers: those its entries head, and those the
\* entries aggregate.
Heads == {leakEntries[i].serialNumber : i \in 1..Len(leakEntries)}
CoveredPtrs == {p \in DOMAIN blockinfos : blockinfos[p].serialNumber \in Heads} \cup lastOp.aggregated
Reporting == lastOp'.op = "ReportLeaks"

\* N >= 1 live blocks, all unreported, of one size and one call stack.
Identical ==
    /\ LiveKeys # {}
    /\ \A k \in LiveKeys : ~InfoOf(k).reported /\ InfoOf(k).callStack # NULL
    /\ \A k1, k2 \in LiveKeys : /\ InfoOf(k1).size = InfoOf(k2).size
                                /\ InfoOf(k1).callStack = InfoOf(k2).callStack

\* The first of the live blocks in the order of the report.
FirstKey == CHOOSE k \in LiveKeys : \A j \in LiveKeys : k[1] < j[1] \/ (k[1] = j[1] /\ k[2] <= j[2])

\* C6 as stated: given N live, unreported blocks of identical size and call stack and
\* no other block, ReportLeaks with aggregation writes one entry, of count N and of
\* N x size bytes in total, and returns N; without aggregation it writes N entries of
\* count 1 and returns N.
C6_AggregatesIdentical ==
    [][(Reporting /\ Identical) =>
          LET N == Cardinality(LiveKeys)
          IN /\ retval' = N
             /\ IF "VLD_OPT_AGGREGATE_DUPLICATES" \in m_options
                THEN /\ Len(leakEntries') = 1
                     /\ leakEntries'[1].count = N
                     /\ leakEntries'[1].total = N * InfoOf(FirstKey).size
                ELSE /\ Len(leakEntries') = N
                     /\ \A i \in 1..N : leakEntries'[i].count = 1]_vars

\* C6, amended: the same of N blocks none of which a filter of the report excludes,
\* the total being N x the size the entry shows (of a CRT debug block, the size in its
\* header).
C6_AggregatesUnfiltered ==
    [][(Reporting /\ Identical /\ \A k \in LiveKeys : Unfiltered(k)) =>
          LET N == Cardinality(LiveKeys)
          IN /\ retval' = N
             /\ IF "VLD_OPT_AGGREGATE_DUPLICATES" \in m_options
                THEN /\ Len(leakEntries') = 1
                     /\ leakEntries'[1].serialNumber = InfoOf(FirstKey).serialNumber
                     /\ leakEntries'[1].count = N
                     /\ leakEntries'[1].size = ShownSize(FirstKey)
                     /\ leakEntries'[1].total = N * ShownSize(FirstKey)
                ELSE /\ Len(leakEntries') = N
                     /\ \A i \in 1..N : /\ leakEntries'[i].count = 1
                                        /\ leakEntries'[i].total = leakEntries'[i].size
                     /\ {leakEntries'[i].serialNumber : i \in 1..N}
                           = {InfoOf(k).serialNumber : k \in LiveKeys}]_vars

\* Two identical blocks have just been reported as one entry of count 2.
C6_Witness ==
    /\ lastOp.op = "ReportLeaks"
    /\ "VLD_OPT_AGGREGATE_DUPLICATES" \in m_options
    /\ Cardinality(LiveKeys) = 2
    /\ Identical
    /\ Len(leakEntries) = 1
    /\ leakEntries[1].count = 2 /\ leakEntries[1].total = 2
    /\ retval = 2

\* Every block mapped since the last MarkAllLeaksAsReported is covered by the report
\* where Cond holds of it.
NewBlocksReported(Cond(_)) ==
    (Reporting /\ markSerial > 0) =>
        \A k \in LiveKeys :
            (InfoOf(k).serialNumber >= markSerial /\ Cond(k)) => PtrOf(k) \in CoveredPtrs'

\* A ReportLeaks right after MarkAllLeaksAsReported returns 0 and writes no entry.
MarkThenReport ==
    (lastOp.op = "MarkAllLeaksAsReported" /\ Reporting) => (retval' = 0 /\ leakEntries' = <<>>)

AnyBlock(k) == TRUE

\* C7 as stated: MarkAllLeaksAsReported and then ReportLeaks reports no leak, for any
\* ledger and options; a block mapped after the MarkAllLeaksAsReported and not freed
\* is reported by a later ReportLeaks.
C7_NewBlockReported == [][MarkThenReport /\ NewBlocksReported(AnyBlock)]_vars

\* C7, amended: ...; a block mapped after the MarkAllLeaksAsReported and not freed is
\* reported by a later ReportLeaks unless a filter of the report excludes it (CRT's own
\* use; CRT startup stack under SkipCrtStartupLeaks, in this or in an earlier query).
C7_NewUnfilteredBlockReported == [][MarkThenReport /\ NewBlocksReported(Unfiltered)]_vars

\* Block 1 was marked, block 2 was mapped after that, and the report shows block 2 alone.
C7_Witness ==
    /\ lastOp.op = "ReportLeaks"
    /\ markSerial = 2
    /\ m_requestCurr = 3
    /\ Cardinality(LiveKeys) = 2
    /\ \E k \in LiveKeys : InfoOf(k).serialNumber = 1 /\ InfoOf(k).reported
    /\ retval = 1
    /\ Len(leakEntries) = 1
    /\ leakEntries[1].serialNumber = 2

\* A query made with SkipCrtStartupLeaks on.
Querying ==
    /\ lastOp'.op \in {"GetLeaksCount", "ReportLeaks"}
    /\ "VLD_OPT_SKIP_CRTSTARTUP_LEAKS" \in m_options

\* The query counts and shows no block of the CRT's startup.
StartupExcluded ==
    /\ lastOp'.op = "GetLeaksCount" => retval' = Cardinality({k \in LiveKeys : Unfiltered(k)})
    /\ lastOp'.op = "ReportLeaks" =>
          /\ retval' = Cardinality(CoveredPtrs')
          /\ \A k \in LiveKeys : CrtStartup(k) => PtrOf(k) \notin CoveredPtrs'

\* C8 as stated: with SkipCrtStartupLeaks on, a live block with a CRT startup stack is
\* excluded from GetLeaksCount and from the count and the output of ReportLeaks, the
\* call sets its reported flag, and later calls exclude it as well.
C8_StartupMarked ==
    [][Querying =>
          /\ StartupExcluded
          /\ \A k \in LiveKeys : CrtStartup(k) => blockinfos'[PtrOf(k)].reported]_vars

\* C8, amended: ..., the call sets its reported flag unless the block is in the CRT's
\* own use (internal or freed), which excludes it before the startup test, ...
C8_StartupMarkedUnlessCrtOwn ==
    [][Querying =>
          /\ StartupExcluded
          /\ \A k \in LiveKeys :
                (CrtStartup(k) /\ ~CrtOwn(k)) => blockinfos'[PtrOf(k)].reported
          /\ \A k \in LiveKeys :
                (CrtStartup(k) /\ CrtOwn(k)) =>
                    blockinfos'[PtrOf(k)].reported = InfoOf(k).reported]_vars

\* GetLeaksCount has just counted one of two blocks and marked the other, of the CRT's
\* startup, as reported.
C8_Witness ==
    /\ lastOp.op = "GetLeaksCount"
    /\ "VLD_OPT_SKIP_CRTSTARTUP_LEAKS" \in m_options
    /\ markSerial = 0
    /\ Cardinality(LiveKeys) = 2
    /\ retval = 1
    /\ \E k \in LiveKeys : CrtStartup(k) /\ ~CrtOwn(k) /\ InfoOf(k).reported

(***************************************************************************)
(* Claims of the per-thread switches and of the capture protocol.          *)
(***************************************************************************)
\* The step is an allocation of a thread whose suspension is one of S.
AllocWhile(S) == lastOp'.op = "alloc" /\ suspended[lastOp'.threadId] \in S

\* The block is in the ledger after the step.
TrackedAfter(heap, mem) == heap \in DOMAIN m_heapMap' /\ mem \in DOMAIN m_heapMap'[heap].blockMap

\* enabled() was FALSE for the allocation, and it is not in the ledger.
NotMapped ==
    /\ ~lastOp'.enabled
    /\ UNCHANGED ledgerVars
    /\ ~TrackedAfter(lastOp'.heap, lastOp'.mem)

\* The thread's own switch is on: what enabled() tests.
SwitchedOn(u) ==
    IF u \in DOMAIN m_tlsMap /\ m_tlsMap[u].flags \cap {"VLD_TLS_ENABLED", "VLD_TLS_DISABLED"} # {}
    THEN "VLD_TLS_ENABLED" \in m_tlsMap[u].flags
    ELSE "VLD_OPT_START_DISABLED" \notin m_options

\* While a thread is between its DisableLeakDetection and its EnableLeakDetection, the
\* call has changed nothing of the other threads, and their allocations, from modules
\* not excluded, are mapped as they are otherwise.
OthersTracked ==
    /\ lastOp'.op = "DisableLeakDetection" =>
          /\ m_options' = m_options
          /\ \A u \in Threads \ {lastOp'.threadId} :
                /\ u \in DOMAIN m_tlsMap' <=> u \in DOMAIN m_tlsMap
                /\ u \in DOMAIN m_tlsMap => m_tlsMap'[u] = m_tlsMap[u]
    /\ (/\ lastOp'.op = "alloc"
        /\ \E t \in Threads \ {lastOp'.threadId} : suspended[t] # "no"
        /\ SwitchedOn(lastOp'.threadId)
        /\ ~lastOp'.excluded) =>
          /\ TrackedAfter(lastOp'.heap, lastOp'.mem)
          /\ LET info == blockinfos'[m_heapMap'[lastOp'.heap].blockMap[lastOp'.mem]]
             IN info.threadId = lastOp'.threadId /\ info.serialNumber = m_requestCurr

\* C9 as stated: an allocation a thread makes between its DisableLeakDetection and its
\* EnableLeakDetection is never in the ledger: enabled() returns FALSE on that thread
\* in the interval and no block is mapped, while the allocations of the other threads
\* in the interval are still tracked.
C9_DisabledNotTracked ==
    [][(AllocWhile({"yes", "overridden"}) => NotMapped) /\ OthersTracked]_vars

\* C9, amended: ..., provided no other thread calls GlobalEnableLeakDetection between
\* the DisableLeakDetection and the allocation, which re-enables every thread, ...
C9_DisabledNotTrackedUnlessGlobalEnable ==
    [][(AllocWhile({"yes"}) => NotMapped) /\ OthersTracked]_vars

\* Thread 1, suspended by its own DisableLeakDetection, has just allocated: nothing
\* was mapped, and the ledger holds the one block thread 2 allocated.
C9_Witness ==
    /\ lastOp.op = "alloc"
    /\ lastOp.threadId = 1
    /\ suspended[1] = "yes"
    /\ ~lastOp.enabled
    /\ ~Tracked(lastOp.heap, lastOp.mem)
    /\ m_requestCurr = 2
    /\ \E p \in DOMAIN blockinfos : blockinfos[p].threadId = 2

\* The context recorded in the state of thread t.
CtxOf(T, t) == IF t \in DOMAIN T THEN T[t].context ELSE NullContext

\* An entry is first when no hooked call of its thread is in progress; the first entry
\* records its context, a nested one leaves the recorded context as it is.
EntryRecordsIfFirst ==
    (lastOp'.op = "enter" /\ lastOp'.enabled) =>
        LET t == lastOp'.threadId
        IN /\ lastOp'.first <=> ccStack[t] = <<>>
           /\ lastOp'.first =>
                 CtxOf(m_tlsMap', t) = [fp |-> lastOp'.fp, func |-> lastOp'.fp]
           /\ ~lastOp'.first => CtxOf(m_tlsMap', t) = CtxOf(m_tlsMap, t)

\* The exit of a nested entry commits nothing and resets nothing.
NestedExitIdle ==
    (lastOp'.op = "exit" /\ ~lastOp'.first) =>
        /\ UNCHANGED ledgerVars
        /\ m_tlsMap' = m_tlsMap

\* The ledger changes in the exit of a first entry only, by one mapBlock or remapBlock
\* of the pending block of the thread.
OneCommit ==
    ~UNCHANGED ledgerVars =>
        /\ lastOp'.op = "exit"
        /\ lastOp'.first
        /\ LET t == lastOp'.threadId
               tls == m_tlsMap[t]
               debug == "VLD_TLS_DEBUGCRTALLOC" \in tls.flags
               ucrt == "VLD_TLS_UCRT" \in tls.flags
           IN \E cs \in Frames :
                 \/ LedgerIs(WithStack(mapBlock(Ledger, tls.heap, tls.blockWithoutGuard,
                                                tls.size, debug, ucrt, t), cs))
                 \/ LedgerIs(WithStack(remapBlock(Ledger, tls.heap, tls.blockWithoutGuard,
                                                  tls.newBlockWithoutGuard, tls.size,
                                                  debug, ucrt, t), cs))

\* The recorded context of a thread changes only as Allowed.
ContextChanges(Allowed(_)) ==
    \A t \in Threads :
        CtxOf(m_tlsMap', t) # CtxOf(m_tlsMap, t) => lastOp'.threadId = t /\ Allowed(t)

\* By the first entry, and by its exit, which resets it.
ByFirst(t) == lastOp'.op \in {"enter", "exit"} /\ lastOp'.first

\* Or by the Set of any entry, first or nested, that has a block while
\* VLD_OPT_TRACE_INTERNAL_FRAMES is set: it records the context of that entry.
ByFirstOrSet(t) ==
    \/ ByFirst(t)
    \/ /\ lastOp'.op = "set"
       /\ lastOp'.mem # NULL
       /\ "VLD_OPT_TRACE_INTERNAL_FRAMES" \in m_options
       /\ CtxOf(m_tlsMap', t) = [fp |-> lastOp'.fp, func |-> lastOp'.fp]

\* C10 as stated: on any thread and at any depth of nesting, only the outermost entry
\* records the context into the thread state and only its exit commits a ledger entry;
\* a nested entry leaves the recorded context unchanged and its exit neither commits
\* nor resets, so one outermost call results in at most one mapBlock/remapBlock.
C10_OnlyOutermostRecords ==
    [][EntryRecordsIfFirst /\ NestedExitIdle /\ OneCommit /\ ContextChanges(ByFirst)]_vars

\* C10, amended: ... a nested entry leaves the recorded context unchanged unless
\* VLD_OPT_TRACE_INTERNAL_FRAMES is set and it calls Set with a block, which records
\* the context of that entry, ...
C10_OnlyOutermostRecordsUnlessInternalFrames ==
    [][EntryRecordsIfFirst /\ NestedExitIdle /\ OneCommit /\ ContextChanges(ByFirstOrSet)]_vars

\* A nested entry of thread 1, which had set a block, has just exited: its outer entry
\* is still in progress, the block is pending and nothing is committed.
C10_Witness ==
    /\ lastOp.op = "exit"
    /\ lastOp.threadId = 1
    /\ ~lastOp.first
    /\ Len(ccStack[1]) = 1
    /\ m_tlsMap[1].blockWithoutGuard # NULL
    /\ m_tlsMap[1].context = ccStack[1][1].m_context
    /\ m_requestCurr = 1
    /\ m_heapMap = EmptyMap


\* The exit of an outermost entry.
OutermostExit == lastOp'.op = "exit" /\ lastOp'.first

\* The block the thread's exit commits, when it commits one.
CommittedInfo(tls) ==
    LET b == IF tls.newBlockWithoutGuard = NULL THEN tls.blockWithoutGuard
             ELSE tls.newBlockWithoutGuard
    IN blockinfos'[m_heapMap'[tls.heap].blockMap[b]]

\* C11: the exit of the outermost CaptureContext commits to the ledger if and only if
\* Set stashed a block address and the calling module is not excluded; it then does
\* exactly one mapBlock (no new address stashed) or one remapBlock (new address
\* stashed), and attaches the call stack captured from the recorded context to the
\* blockinfo_t that commit gave; in every other case the ledger is unchanged.
C11_ExitCommitsOnce ==
    [][OutermostExit =>
          LET t == lastOp'.threadId
              tls == m_tlsMap[t]
              debug == "VLD_TLS_DEBUGCRTALLOC" \in tls.flags
              ucrt == "VLD_TLS_UCRT" \in tls.flags
              M == IF tls.newBlockWithoutGuard = NULL
                   THEN mapBlock(Ledger, tls.heap, tls.blockWithoutGuard, tls.size,
                                 debug, ucrt, t)
                   ELSE remapBlock(Ledger, tls.heap, tls.blockWithoutGuard,
                                   tls.newBlockWithoutGuard, tls.size, debug, ucrt, t)
          IN /\ lastOp'.committed <=> (tls.blockWithoutGuard # NULL /\ ~lastOp'.excluded)
             /\ lastOp'.committed =>
                   /\ LedgerIs(WithStack(M, tls.context.fp))
                   /\ CommittedInfo(tls).callStack = tls.context.fp
                   /\ CommittedInfo(tls).threadId = t
                   /\ m_requestCurr' <= m_requestCurr + 1
             /\ ~lastOp'.committed => UNCHANGED ledgerVars]_vars

\* The outermost entry of thread 1 has just exited with a reallocation stashed: the
\* block is in the ledger at its new address, with the stack of the recorded context.
C11_Witness ==
    /\ lastOp.op = "exit"
    /\ lastOp.first
    /\ lastOp.committed
    /\ lastOp.threadId = 1
    /\ lastOp.newmem = 2
    /\ Tracked(1, 2)
    /\ blockinfos[m_heapMap[1].blockMap[2]].callStack = lastOp.fp
    /\ lastOp.fp # NULL

\* The capture state of a thread is idle.
Idle(tls) ==
    /\ tls.context = NullContext
    /\ tls.heap = NULL
    /\ tls.blockWithoutGuard = NULL
    /\ tls.newBlockWithoutGuard = NULL
    /\ tls.size = 0
    /\ tls.flags \cap {"VLD_TLS_DEBUGCRTALLOC", "VLD_TLS_UCRT"} = {}

\* C12: after the outermost CaptureContext exits, on the commit path and on every
\* early-exit path, the thread's capture state is idle (context, pending heap, old and
\* new address and size null, debug-CRT and UCRT flags clear) and its enabled/disabled
\* flags are as before; the next CaptureContext entered on the thread is outermost.
C12_ExitLeavesIdle ==
    [][/\ OutermostExit =>
             LET t == lastOp'.threadId
                 switch == {"VLD_TLS_ENABLED", "VLD_TLS_DISABLED"}
             IN /\ Idle(m_tlsMap'[t])
                /\ m_tlsMap'[t].flags \cap switch = m_tlsMap[t].flags \cap switch
                /\ m_tlsMap'[t].oldFlags = m_tlsMap[t].oldFlags
                /\ ccStack'[t] = <<>>
       /\ (lastOp'.op = "enter" /\ lastOp'.enabled /\ ccStack[lastOp'.threadId] = <<>>) =>
             /\ lastOp'.first
             /\ m_tlsMap'[lastOp'.threadId].context.fp = lastOp'.fp]_vars

\* Thread 2, which allocates through the debug CRT, has exited its outermost entry
\* from an excluded module after another thread disabled detection for all threads:
\* nothing was committed and its capture state is idle, its switch still off.
C12_Witness ==
    /\ lastOp.op = "exit"
    /\ lastOp.first
    /\ lastOp.threadId = 2
    /\ lastOp.excluded
    /\ lastOp.mem # NULL
    /\ ~lastOp.committed
    /\ Idle(m_tlsMap[2])
    /\ "VLD_TLS_DISABLED" \in m_tlsMap[2].flags

\* C13: with VLD_OPT_VALIDATE_HEAPFREE off, unmapBlock of an address that is not
\* tracked (null address, unknown heap, or address absent from the heap's block map)
\* is silently ignored: the heap map, every block map and the three counters are
\* unchanged, no heap record is created and nothing is reported.
C13_MissIgnored ==
    [][(/\ lastOp'.op = "unmapBlock"
        /\ "VLD_OPT_VALIDATE_HEAPFREE" \notin m_options
        /\ ~Tracked(lastOp'.heap, lastOp'.mem)) =>
          /\ UNCHANGED ledgerVars
          /\ DOMAIN m_heapMap' = DOMAIN m_heapMap
          /\ reportLog' = <<>>]_vars

\* unmapBlock was just called for an address of a heap that has no record, while
\* another heap tracks a block at that address: the block is still there.
C13_Witness ==
    /\ lastOp.op = "unmapBlock"
    /\ lastOp.mem # NULL
    /\ lastOp.heap \notin DOMAIN m_heapMap
    /\ \E h \in DOMAIN m_heapMap : Tracked(h, lastOp.mem)
    /\ m_curAlloc > 0

(***************************************************************************)
(* Claims of the heap records.                                             *)
(***************************************************************************)
\* The blockinfo_t objects the record of heap h owns, and their bytes.
OwnedBy(h) ==
    IF h \in DOMAIN m_heapMap
    THEN {m_heapMap[h].blockMap[a] : a \in DOMAIN m_heapMap[h].blockMap}
    ELSE {}
BytesOf(P) == SumOver([p \in P |-> blockinfos[p].size], P)

\* The step frees every blockinfo_t of heap h, takes their bytes from the current live
\* bytes and leaves the records of the other heaps as they are.
Evicts(h) ==
    /\ DOMAIN blockinfos' = (DOMAIN blockinfos) \ OwnedBy(h)
    /\ \A p \in DOMAIN blockinfos' : blockinfos'[p] = blockinfos[p]
    /\ m_curAlloc' = m_curAlloc - BytesOf(OwnedBy(h))
    /\ \A g \in (DOMAIN m_heapMap) \ {h} :
          g \in DOMAIN m_heapMap' /\ m_heapMap'[g] = m_heapMap[g]

\* C14: unmapHeap on a tracked heap frees every BlockInfo the heap owns, removes the
\* heap's record, reduces the current live bytes by the sum of the removed blocks'
\* sizes and leaves every other heap's blocks unchanged; on an untracked heap it
\* changes nothing.
C14_UnmapHeapFreesAll ==
    [][lastOp'.op = "unmapHeap" =>
          LET h == lastOp'.heap
          IN IF h \in DOMAIN m_heapMap
             THEN /\ Evicts(h)
                  /\ DOMAIN m_heapMap' = (DOMAIN m_heapMap) \ {h}
             ELSE UNCHANGED ledgerVars]_vars

\* unmapHeap has just removed a heap that owned two blocks of 3 bytes; the other heap
\* keeps its block of 2 bytes.
C14_Witness ==
    /\ lastOp.op = "unmapHeap"
    /\ lastOp.owner = 1
    /\ m_requestCurr = 4
    /\ m_totalAlloc = 5
    /\ m_curAlloc = 2
    /\ Cardinality(DOMAIN blockinfos) = 1
    /\ Cardinality(DOMAIN m_heapMap) = 1
    /\ lastOp.heap \notin DOMAIN m_heapMap

\* C15: mapHeap on a handle that has a heap record evicts the stale record first (its
\* BlockInfo entries are freed and their sizes subtracted from the current live
\* bytes), reports a duplicate-heap warning and leaves exactly one record for the
\* handle, with an empty block map; mapBlock on a never-seen heap handle creates the
\* heap record before it inserts the block.
C15_DuplicateHeapEvicted ==
    [][/\ (lastOp'.op = "mapHeap" /\ lastOp'.heap \in DOMAIN m_heapMap) =>
             LET h == lastOp'.heap
             IN /\ Evicts(h)
                /\ reportLog' = <<"duplicate heap">>
                /\ DOMAIN m_heapMap' = DOMAIN m_heapMap
                /\ m_heapMap'[h].blockMap = EmptyMap
       /\ (lastOp'.op = "mapHeap" /\ lastOp'.heap \notin DOMAIN m_heapMap) =>
             /\ DOMAIN m_heapMap' = (DOMAIN m_heapMap) \cup {lastOp'.heap}
             /\ m_heapMap'[lastOp'.heap].blockMap = EmptyMap
             /\ reportLog' = <<>>
       /\ (lastOp'.op = "mapBlock" /\ lastOp'.heap \notin DOMAIN m_heapMap) =>
             /\ DOMAIN m_heapMap' = (DOMAIN m_heapMap) \cup {lastOp'.heap}
             /\ DOMAIN m_heapMap'[lastOp'.heap].blockMap = {lastOp'.mem}
             /\ reportLog' = <<>>]_vars

\* mapHeap has just been called for a heap that owned a block of 2 bytes: the
\* warning is reported, the heap's record is empty and the other heap keeps its block.
C15_Witness ==
    /\ lastOp.op = "mapHeap"
    /\ lastOp.owner = 1
    /\ reportLog = <<"duplicate heap">>
    /\ m_totalAlloc = 3
    /\ m_curAlloc = 1
    /\ Cardinality(DOMAIN m_heapMap) = 2
    /\ m_heapMap[lastOp.heap].blockMap = EmptyMap
    /\ Cardinality(DOMAIN blockinfos) = 1

(***************************************************************************)
(* Claims of the loader hook.                                              *)
(***************************************************************************)
\* C16: the loader-hook patch is idempotent and restore is gated on it: a second
\* NtDllPatch after a successful one modifies no memory and returns TRUE, and
\* NtDllRestore returns TRUE and writes memory only if a successful NtDllPatch
\* previously completed; otherwise it returns FALSE and writes nothing.
C16_PatchIdempotentRestoreGated ==
    [][/\ (lastOp'.op = "NtDllPatch" /\ patched) =>
             /\ lastOp'.result
             /\ ~lastOp'.wrote
             /\ UNCHANGED <<patch, ntdll>>
       /\ (lastOp'.op = "NtDllRestore" /\ (lastOp'.result \/ lastOp'.wrote)) => patched
       /\ (lastOp'.op = "NtDllRestore" /\ ~patched) =>
             /\ ~lastOp'.result
             /\ ~lastOp'.wrote
             /\ UNCHANGED <<patch, ntdll>>]_vars

\* A second NtDllPatch has just returned TRUE on the patched loader.
C16_Witness ==
    /\ lastOp.op = "NtDllPatch"
    /\ lastOp.result
    /\ ~lastOp.wrote
    /\ patched
    /\ patch.bState
    /\ ntdll.bytes[ReturnAddress - CallSize - JmpSize] = 233
    /\ ntdll.bytes[patch.pDetourAddress] # 0
    /\ BytesAt(patch.pBackup, 1, patch.nPatchSize)
           = BytesAt(image, patch.pPatchAddress, patch.nPatchSize)

\* The patched range and the detour of the patch.
PatchSite == {a \in Region : a >= patch.pPatchAddress
                              /\ a < patch.pPatchAddress + patch.nPatchSize}
DetourRegion == {a \in Region : a >= patch.pDetourAddress
                                 /\ a < patch.pDetourAddress + patch.nDetourSize}
RoundTrip ==
    /\ \A a \in PatchSite \cup DetourRegion : ntdll.bytes[a] = image[a]
    /\ \A a \in DetourRegion : image[a] = 0

NoPattern ==
    \/ NtDllFindParamAddress(ntdll, ReturnAddress) = NULL
    \/ NtDllFindCallAddress(ntdll, ReturnAddress) = NULL
NoDetour ==
    NtDllFindDetourAddress(ntdll, ReturnAddress,
        Wrap(PtrSize + Wrap(NtDllFindCallAddress(ntdll, ReturnAddress)
                            - NtDllFindParamAddress(ntdll, ReturnAddress))
             + MovSize + JmpSize)) = NULL

\* C23: when the parameter pattern or the call pattern is not found before the return
\* address, or no detour is found, NtDllPatch modifies no byte of the loader's code,
\* leaves bState FALSE and returns FALSE; and whenever NtDllPatch returns FALSE it has
\* modified no byte of the loader's code.
C23_FalseMeansUntouched ==
    [][lastOp'.op = "NtDllPatch" =>
          /\ (~patch.bState /\ (NoPattern \/ NoDetour)) =>
                 /\ ntdll'.bytes = ntdll.bytes
                 /\ ~patch'.bState
                 /\ ~lastOp'.result
          /\ ~lastOp'.result => ntdll'.bytes = ntdll.bytes]_vars

(***************************************************************************)
(* Claims of what the switches leave alone.                                *)
(***************************************************************************)
\* The calls that switch the detection.
Switches ==
    {"DisableLeakDetection", "GlobalDisableLeakDetection", "EnableLeakDetection",
     "GlobalEnableLeakDetection", "RestoreLeakDetectionState"}

\* The detection is off for some thread or for the threads to come.
SomeDisabled ==
    \/ "VLD_OPT_START_DISABLED" \in m_options
    \/ \E t \in DOMAIN m_tlsMap : "VLD_TLS_DISABLED" \in m_tlsMap[t].flags

\* C17: disabling leak detection never unwinds allocations already tracked: the five
\* calls that switch the detection leave the heap map, every block map entry (its
\* reported flag included) and the byte counters unchanged, and a block tracked before
\* a disable that the report would show is shown by a ReportLeaks made afterwards, if
\* it was not freed.
C17_DisableKeepsTracked ==
    [][/\ lastOp'.op \in Switches =>
             /\ UNCHANGED ledgerVars
             /\ \A k \in LiveKeys : Unfiltered(k)' = Unfiltered(k)
       /\ (Reporting /\ SomeDisabled) =>
             /\ \A k \in LiveKeys : Unfiltered(k) => PtrOf(k) \in CoveredPtrs'
             /\ retval' = Cardinality({k \in LiveKeys : Unfiltered(k)})]_vars

\* Thread 1 allocated a block and then disabled the detection for itself; the
\* ReportLeaks just made shows the block.
C17_Witness ==
    /\ lastOp.op = "ReportLeaks"
    /\ suspended[1] = "yes"
    /\ "VLD_TLS_DISABLED" \in m_tlsMap[1].flags
    /\ retval = 1
    /\ Len(leakEntries) = 1
    /\ leakEntries[1].threadId = 1
    /\ Cardinality(LiveKeys) = 1

(***************************************************************************)
(* Claims of the ledger lock.                                              *)
(***************************************************************************)
InLedger(t) == inCall[t].pc \in {"read", "write", "leave"}

\* C18: a thread reads or writes the heap map, the block maps and the counters in
\* mapHeap, mapBlock, unmapBlock, unmapHeap, remapBlock, GetLeaksCount, ReportLeaks
\* and MarkAllLeaksAsReported only while it owns g_heapMapLock, no two threads are
\* between the reads and the writes at once, and whenever no thread owns the lock the
\* ledger and the counters are those of the operations run one at a time in the order
\* in which they took the lock; each returns what it returns in that order.
C18_LedgerSerialized ==
    /\ \A t \in Threads : InLedger(t) => g_heapMapLock = t
    /\ g_heapMapLock = 0 => Plain(Ledger) = serial
    /\ \A t \in Threads : inCall[t].pc = "leave" =>
           /\ inCall[t].result = inCall[t].expect
           /\ Plain(Ledger) = serial

\* Thread 2 has mapped a block while thread 1 waits at the lock with a mapBlock of
\* its own, after an earlier mapBlock.
C18_Witness ==
    /\ inCall[1].pc = "lock" /\ inCall[1].op = "mapBlock"
    /\ inCall[2].pc = "leave" /\ inCall[2].op = "mapBlock"
    /\ g_heapMapLock = 2
    /\ m_requestCurr = 3
    /\ Cardinality(DOMAIN blockinfos) = 2

(***************************************************************************)
(* Claims of the counters' overflow.                                       *)
(***************************************************************************)
SizeAt(h, a) == IF Tracked(h, a) THEN blockinfos[m_heapMap[h].blockMap[a]].size ELSE 0

Clamp(x) == IF x > SIZE_MAX THEN SIZE_MAX ELSE x

\* The bytes of the blocks that the mapBlock or remapBlock recorded in lastOp' takes
\* out of the ledger: the block at the address, and for a remapBlock to another
\* address the block that was tracked at the new address.
BytesGone ==
    SizeAt(lastOp'.heap, lastOp'.mem)
    + (IF lastOp'.op = "remapBlock" /\ lastOp'.newmem # lastOp'.mem
       THEN SizeAt(lastOp'.heap, lastOp'.newmem) ELSE 0)

\* The bytes that an in-place remapBlock of a tracked block takes back out of
\* m_totalAlloc before it adds the new size.
Resized ==
    IF lastOp'.op = "remapBlock" /\ lastOp'.newmem = lastOp'.mem
    THEN SizeAt(lastOp'.heap, lastOp'.mem) ELSE 0

\* C19: no mapBlock and no remapBlock makes m_totalAlloc, m_curAlloc or m_maxAlloc
\* wrap around: a counter that the added bytes would take over SIZE_MAX stays at
\* SIZE_MAX, and no counter is left with the sum modulo SIZE_MAX + 1.
C19_CountersSaturate ==
    [][lastOp'.op \in {"mapBlock", "remapBlock"} =>
          /\ m_curAlloc' = Clamp(m_curAlloc - BytesGone + lastOp'.size)
          /\ m_maxAlloc' >= m_maxAlloc /\ m_maxAlloc' >= m_curAlloc'
          /\ m_totalAlloc - Resized + lastOp'.size > SIZE_MAX => m_totalAlloc' = SIZE_MAX
          /\ m_totalAlloc = SIZE_MAX => m_totalAlloc' = SIZE_MAX
          /\ (m_totalAlloc < SIZE_MAX /\ m_totalAlloc - Resized + lastOp'.size <= SIZE_MAX)
                => m_totalAlloc' = m_totalAlloc - Resized + lastOp'.size]_vars

(***************************************************************************)
(* Claims of the queries of one thread's blocks.                           *)
(***************************************************************************)
OwnLeaks(t) == {k \in LiveKeys : Unfiltered(k) /\ InfoOf(k).threadId = t}

\* C20: GetThreadLeaksCount(t) and ReportThreadLeaks(t) return the number of live,
\* unreported, unfiltered blocks whose thread id is t, whatever the options, and
\* MarkThreadLeaksAsReported(t) changes the reported flag of blocks of t only.
C20_ThreadQueriesCountOwn ==
    [][/\ lastOp'.op \in {"GetThreadLeaksCount", "ReportThreadLeaks"} =>
             retval' = Cardinality(OwnLeaks(lastOp'.threadId))
       /\ lastOp'.op = "MarkThreadLeaksAsReported" =>
             \A k \in LiveKeys :
                InfoOf(k).threadId # lastOp'.threadId =>
                   blockinfos'[PtrOf(k)].reported = InfoOf(k).reported]_vars

(***************************************************************************)
(* Claims of the module registry.                                          *)
(***************************************************************************)
InUse == moduleSets[m_loadedModules]

ListedNotReported(m) ==
    \E i \in DOMAIN m_patchTable :
       m_patchTable[i].moduleBase = m /\ ~m_patchTable[i].reportLeaks

MarkedExcluded(m) == m \in DOMAIN InUse /\ "VLD_MODULE_EXCLUDED" \in InUse[m]

\* C21: IsExcludedModule answers TRUE for a calling module exactly when the module is
\* dbghelp.dll, or the patch table lists it with its leaks not reported, or the set
\* of loaded modules marks it VLD_MODULE_EXCLUDED.
C21_ExcludedByAnyOfThree ==
    [][lastOp'.op = "IsExcludedModule" =>
          lastOp'.result = (\/ lastOp'.module = m_dbghlpBase
                            \/ ListedNotReported(lastOp'.module)
                            \/ MarkedExcluded(lastOp'.module))]_vars

(***************************************************************************)
(* Claims of the loader's calls of entry points.                           *)
(***************************************************************************)
\* Thread t's call of LdrpCallInitRoutine calls the entry point in this step.
Invokes(t) == hookCall'[t].invoked = hookCall[t].invoked + 1
\* Thread t's call of LdrpCallInitRoutine returns in this step.
Returns(t) == hookCall[t].pc = "called" /\ hookCall'[t].pc = "idle"
\* The set of loaded modules in use lists every module of the process.
Enumerated == DOMAIN moduleSets[m_loadedModules] = process

\* What C24 says of every call of an entry point but the calls for process attach.
OtherReasons ==
    \A t \in Threads :
        /\ (Invokes(t) /\ hookCall[t].Reason # "DLL_PROCESS_ATTACH") =>
               /\ loaderLock = t
               /\ ~hookCall[t].refreshed
               /\ hookCall[t].invoked = 0
        /\ Returns(t) =>
               /\ hookCall[t].invoked = 1
               /\ lastOp'.result = hookCall[t].returned

\* C24, as the code has it: with the detector not turned off, an entry point called
\* through LdrpCallInitRoutine for process attach is called after a RefreshModules
\* that the same thread completed in this call, holding the loader lock, and that
\* left a new set listing every loaded module; with the detector turned off
\* (VLD_OPT_VLDOFF) or for any other reason the entry point is called without a
\* refresh; every call of LdrpCallInitRoutine calls the entry point once and returns
\* what it returned.
C24_AttachRefreshedUnlessOff ==
    [][/\ \A t \in Threads :
             (Invokes(t) /\ hookCall[t].Reason = "DLL_PROCESS_ATTACH") =>
                 /\ loaderLock = t
                 /\ hookCall[t].invoked = 0
                 /\ IF "VLD_OPT_VLDOFF" \in m_options
                    THEN ~hookCall[t].refreshed
                    ELSE hookCall[t].refreshed /\ Enumerated
       /\ OtherReasons]_vars

\* C24 as stated: every entry point called through LdrpCallInitRoutine for process
\* attach is called after a completed RefreshModules of the same thread, holding the
\* loader lock; for any other reason it is called without a refresh; every call of
\* LdrpCallInitRoutine calls the entry point once and returns what it returned.
C24_AttachRefreshed ==
    [][/\ \A t \in Threads :
             (Invokes(t) /\ hookCall[t].Reason = "DLL_PROCESS_ATTACH") =>
                 /\ loaderLock = t
                 /\ hookCall[t].invoked = 0
                 /\ hookCall[t].refreshed
                 /\ Enumerated
       /\ OtherReasons]_vars

\* The entry point of a module loaded after the start has just been called for process
\* attach, after a refresh that listed and patched the module.
C24_Witness ==
    \E t \in Threads :
        /\ lastOp.op = "EntryPoint"
        /\ lastOp.threadId = t
        /\ hookCall[t].Reason = "DLL_PROCESS_ATTACH"
        /\ hookCall[t].invoked = 1
        /\ hookCall[t].refreshed
        /\ loaderLock = t
        /\ hookCall[t].BaseAddress \notin AtStart
        /\ hookCall[t].BaseAddress \in DOMAIN moduleSets[m_loadedModules]
        /\ hookCall[t].BaseAddress \in attached

(***************************************************************************)
(* Claims of the wait for the other threads.                               *)
(***************************************************************************)
\* The other threads of the thread-state map that the iterator has passed.
OthersPassed == {u \in DOMAIN m_tlsMap : u <= waiter.tlsit /\ u # waiter.current}

Done(e) == \E i \in DOMAIN exit.log : exit.log[i] = e
Before(a, b) ==
    \E i \in DOMAIN exit.log, j \in DOMAIN exit.log :
        exit.log[i] = a /\ exit.log[j] = b /\ i < j
Freed == {"ledger freed", "modules freed", "thread states freed"}

\* C25: at process detach the imports and the loader's patched bytes are restored,
\* then the final report is made, then the ledger, the set of modules and the thread
\* states are freed: no report is made after the ledger is freed, and none at all when
\* the detection started disabled and was never enabled.
C25_DetachOrder ==
    /\ Done("final report") =>
           /\ Before("imports restored", "final report")
           /\ patched => Before("loader restored", "final report")
    /\ \A f \in Freed : Done(f) =>
           /\ Before("imports restored", f)
           /\ patched => Before("loader restored", f)
           /\ Done("final report") => Before("final report", f)
           /\ "VLD_STATUS_NEVER_ENABLED" \notin m_status => Done("final report")
    /\ "VLD_STATUS_NEVER_ENABLED" \in m_status => ~Done("final report")

(***************************************************************************)
(* Claims of the critical sections.                                        *)
(***************************************************************************)
\* The thread's next step reads or writes m_loadedModules or the set it points to.
AtRegistry(t) ==
    \E what \in {"find", "flags", "swap", "delete"} : Running(t, what)

\* The thread has swapped the new set in and has not deleted the old one yet.
Replacing(t) == Running(t, "delete")

\* C27: while RefreshModules on one thread interleaves with isModuleExcluded,
\* ChangeModuleState or getModuleState on another, every access to m_loadedModules is
\* made by the owner of m_modulesLock; the set that an operation reads or writes is
\* the one in use, whole, as it was before a replacement or as it is after it, and
\* never a set that has been deleted.
C27_SnapshotReplacedUnderLock ==
    \A t \in Threads :
        /\ AtRegistry(t) => locks["m_modulesLock"].owner = t
        /\ calls[t].accessed # "freed"
        /\ Running(t, "flags") =>
               /\ calls[t].it = m_loadedModules
               /\ calls[t].it \in DOMAIN moduleSets
               /\ \A u \in Threads \ {t} : ~Replacing(u)
        /\ Replacing(t) => \A u \in Threads \ {t} : ~AtRegistry(u)

\* isModuleExcluded on thread 1 has found the module in the set that a RefreshModules
\* has put in use, and is about to read its flags, while the next RefreshModules, on
\* thread 2, has built its set and waits for m_modulesLock to replace that one.
C27_Witness ==
    /\ calls[1].op = "isModuleExcluded"
    /\ Running(1, "flags")
    /\ calls[1].it = 2
    /\ calls[2].op = "RefreshModules"
    /\ calls[2].steps = replaceSteps \o <<Do("loader")>>
    /\ DOMAIN calls[2].newmodules = {DbgHelp, Plugin, App}

\* How often the steps that the call of thread t has left construct a locker on l, and
\* how often they destroy one.
RECURSIVE Count(_, _)
Count(steps, step) ==
    IF steps = <<>> THEN 0
    ELSE (IF Head(steps) = step THEN 1 ELSE 0) + Count(Tail(steps), step)

Held(t, l) == IF locks[l].owner = t THEN locks[l].count ELSE 0

\* C28: every lock is released on every exit path: a thread that is in none of the
\* operations of the ledger, the registry, the thread states and the options owns
\* none of the four critical sections, and a thread that is in one has, on each path
\* to its return, a locker to destroy for every time it has entered one of them.
C28_LocksReleasedOnReturn ==
    \A t \in Threads, l \in Locks :
        /\ calls[t].pc = "idle" => locks[l].owner # t
        /\ calls[t].steps = <<>> => locks[l].owner # t
        /\ Held(t, l) = Count(calls[t].steps, Release(l)) - Count(calls[t].steps, Acquire(l))

\* unmapBlock has returned at line 1491, for a block that the heap's map does not
\* hold, after findAllocedBlock has entered and left g_heapMapLock inside it; the
\* thread owns no critical section.
C28_Witness ==
    /\ lastOp.op = "unmapBlock"
    /\ lastOp.mem # NULL
    /\ lastOp.nested = {"g_heapMapLock"}
    /\ lastOp.heap \in DOMAIN m_heapMap
    /\ lastOp.mem \notin DOMAIN m_heapMap[lastOp.heap].blockMap
    /\ calls[lastOp.threadId].pc = "idle"
    /\ \A l \in Locks : locks[l] = Unowned

\* C29 as stated: no operation enters the ledger lock, the registry lock, the
\* thread-state-map lock or the options lock while its thread owns that same lock.
C29_NoLockReentered ==
    \A t \in Threads : calls[t].nested = {}

\* C29: no operation enters the registry lock or the thread-state-map lock while its
\* thread owns that same lock.
C29_RegistryAndTlsLocksNotReentered ==
    \A t \in Threads : calls[t].nested \cap {"m_modulesLock", "m_tlsLock"} = {}

\* SetOptions with VLD_OPT_START_DISABLED has returned: it has entered m_optionsLock,
\* and GlobalDisableLeakDetection, called inside, has entered m_optionsLock again and
\* m_tlsLock once.
C29_Witness ==
    /\ lastOp.op = "SetOptions"
    /\ lastOp.entered = {"m_optionsLock", "m_tlsLock"}
    /\ lastOp.nested = {"m_optionsLock"}
    /\ "VLD_OPT_START_DISABLED" \in m_options
    /\ m_tlsMap # EmptyMap

(***************************************************************************)
(* Claims of the capture flags.                                            *)
(***************************************************************************)
CaptureFlags == {"VLD_TLS_DEBUGCRTALLOC", "VLD_TLS_UCRT"}

\* The capture flags of the thread of the step, before the step and after it, and
\* those that the CaptureContext constructed by the step asks for.
FlagsBefore ==
    IF lastOp'.threadId \in DOMAIN m_tlsMap
    THEN m_tlsMap[lastOp'.threadId].flags \cap CaptureFlags ELSE {}
FlagsAfter == m_tlsMap'[lastOp'.threadId].flags \cap CaptureFlags
FlagsAsked ==
    (IF lastOp'.debug THEN {"VLD_TLS_DEBUGCRTALLOC"} ELSE {})
    \cup (IF lastOp'.ucrt THEN {"VLD_TLS_UCRT"} ELSE {})

\* The blockinfo_t that the step has written for the block of the thread.
CommittedBlockInfo ==
    LET mem == IF lastOp'.newmem # NULL THEN lastOp'.newmem ELSE lastOp'.mem
    IN blockinfos'[m_heapMap'[lastOp'.heap].blockMap[mem]]

\* C30 as stated: a nested CaptureContext entry never changes the thread's capture
\* flags.
C30_NestedEntryKeepsFlags ==
    [][(lastOp'.op = "enter" /\ lastOp'.enabled /\ ~lastOp'.first)
          => FlagsAfter = FlagsBefore]_vars

\* C30: every entry to the capture protocol, outermost or nested, marks the capture
\* flags it asks for and clears none; Set and the exit of a nested entry leave them as
\* they are; the flags used at commit are those marked since the outermost entry, by
\* it and by the entries nested in it, and the outermost exit clears them.
C30_EveryEntryMarksFlags ==
    [][/\ (lastOp'.op = "enter" /\ lastOp'.enabled)
            => FlagsAfter = FlagsBefore \cup FlagsAsked
       /\ (lastOp'.op = "enter" /\ lastOp'.enabled /\ lastOp'.first)
            => FlagsBefore = {}
       /\ lastOp'.op = "set" => FlagsAfter = FlagsBefore
       /\ (lastOp'.op = "exit" /\ ~lastOp'.first) => FlagsAfter = FlagsBefore
       /\ (lastOp'.op = "exit" /\ lastOp'.first) => FlagsAfter = {}
       /\ (lastOp'.op = "exit" /\ lastOp'.committed) =>
              /\ CommittedBlockInfo.debugCrtAlloc = ("VLD_TLS_DEBUGCRTALLOC" \in FlagsBefore)
              /\ CommittedBlockInfo.ucrt = ("VLD_TLS_UCRT" \in FlagsBefore)]_vars

\* The outermost call of thread 1, of the release CRT, has committed its block as an
\* allocation of the debug CRT and of the universal CRT: a call nested in it had
\* asked for the two flags.
C30_Witness ==
    /\ lastOp.op = "exit"
    /\ lastOp.threadId = 1
    /\ lastOp.first
    /\ lastOp.committed
    /\ lastOp.heap \in DOMAIN m_heapMap
    /\ lastOp.mem \in DOMAIN m_heapMap[lastOp.heap].blockMap
    /\ blockinfos[m_heapMap[lastOp.heap].blockMap[lastOp.mem]].debugCrtAlloc
    /\ blockinfos[m_heapMap[lastOp.heap].blockMap[lastOp.mem]].ucrt
    /\ blockinfos[m_heapMap[lastOp.heap].blockMap[lastOp.mem]].threadId = 1

(***************************************************************************)
(* The validation of frees across heaps.                                   *)
(***************************************************************************)
\* The detector that its configuration makes validate the heap of every free (1206).
InitValidate ==
    /\ m_options = {"VLD_OPT_VALIDATE_HEAPFREE"}
    /\ m_status = {"VLD_STATUS_INSTALLED"}
    /\ InitState

\* Allocations and frees of one thread on every heap, and the destruction of the heaps.
NextValidate ==
    \/ \E h \in Heaps, a \in Addrs, s \in Sizes : MapBlock(1, h, a, s, 1, FALSE, FALSE, NoHdr)
    \/ \E h \in Heaps, a \in Addrs \cup {NULL} : UnmapBlock(h, a)
    \/ \E h \in Heaps : UnmapHeap(h)

SpecValidate == InitValidate /\ [][NextValidate]_vars

\* The unmapBlock of the step was given an address that heap B does not track.
\* TrackedElsewhere: another heap tracks it.
MissedFree ==
    /\ lastOp'.op = "unmapBlock"
    /\ lastOp'.mem # NULL
    /\ ~Tracked(lastOp'.heap, lastOp'.mem)
TrackedElsewhere ==
    \E h \in Heaps \ {lastOp'.heap} : Tracked(h, lastOp'.mem)
CrossHeapError == <<"allocated in one heap and freed in another">>

\* C31: with VLD_OPT_VALIDATE_HEAPFREE set, unmapBlock(B, address) of an address that
\* another heap A tracks reports the cross-heap free; of an address that no heap
\* tracks, or that B tracks, it reports nothing; and the miss leaves the heap map, the
\* blockinfo_t objects and the counters as they were.
C31_CrossHeapFreeReported ==
    [][("VLD_OPT_VALIDATE_HEAPFREE" \in m_options /\ lastOp'.op = "unmapBlock") =>
          /\ (MissedFree /\ TrackedElsewhere) => reportLog' = CrossHeapError
          /\ ~(MissedFree /\ TrackedElsewhere) => reportLog' = <<>>
          /\ MissedFree => UNCHANGED ledgerVars]_vars

(***************************************************************************)
(* Nested suspensions: a thread that calls DisableLeakDetection or         *)
(* EnableLeakDetection k times and then RestoreLeakDetectionState k times. *)
(***************************************************************************)
\* The calls of a nest.
MaxNest == 3

\* The enabled / disabled state of thread t: the two bits of its flags, none for a
\* thread in its starting state.
SwitchBits == {"VLD_TLS_DISABLED", "VLD_TLS_ENABLED"}
SwitchState(T, t) == IF t \in DOMAIN T THEN T[t].flags \cap SwitchBits ELSE {}

\* A call of a nest on thread t. saved is history: the states of the thread before
\* each call of the nest in progress; restores counts the restores made since.
NestCall(t, name, T, status, sus, saved, restores) ==
    /\ ccStack[t] = <<>>
    /\ m_tlsMap' = T
    /\ m_status' = status
    /\ suspended' = sus
    /\ reportLog' = <<>>
    /\ NoOutput
    /\ lastOp' = [NoOp EXCEPT !.op = name, !.threadId = t, !.saved = saved,
                              !.restores = restores]
    /\ UNCHANGED <<ledgerVars, memHdr, m_options, ccStack, markSerial, ref, loaderVars, lockVars, moduleVars, processVars>>

\* No nest is in progress: every call of the last one has had its restore.
NestDone == lastOp.restores = Len(lastOp.saved)
\* The calls of the nest made so far, when another may follow.
NestSoFar == IF lastOp.restores = 0 THEN lastOp.saved ELSE <<>>

NestDisable(t) ==
    /\ lastOp.restores = 0 \/ NestDone
    /\ Len(NestSoFar) < MaxNest
    /\ NestCall(t, "DisableLeakDetection", DisableLeakDetection(m_tlsMap, t, m_options),
                m_status, [u \in Threads |-> IF u = t THEN "yes" ELSE suspended[u]],
                Append(NestSoFar, SwitchState(m_tlsMap, t)), 0)

NestEnable(t) ==
    /\ lastOp.restores = 0 \/ NestDone
    /\ Len(NestSoFar) < MaxNest
    /\ NestCall(t, "EnableLeakDetection", EnableLeakDetection(m_tlsMap, t, m_options),
                m_status \ {"VLD_STATUS_NEVER_ENABLED"}, Resume(t),
                Append(NestSoFar, SwitchState(m_tlsMap, t)), 0)

NestRestore(t) ==
    /\ lastOp.restores < Len(lastOp.saved)
    /\ NestCall(t, "RestoreLeakDetectionState",
                RestoreLeakDetectionState(m_tlsMap, t, m_options),
                m_status, Resume(t), lastOp.saved, lastOp.restores + 1)

\* One thread: allocations and control calls outside the nests, and the nests.
NextSuspend ==
    \/ \E h \in OneHeap, a \in Addrs :
          /\ NestDone
          /\ m_requestCurr <= MaxAllocs
          /\ FreeAddr(h, a, MaxAllocs)
          /\ HookedAlloc(1, 1, 1, h, a, 1, FALSE)
    \/ NestDone /\ CallGlobalDisableLeakDetection(1)
    \/ NestDone /\ CallGlobalEnableLeakDetection(1)
    \/ NestDisable(1)
    \/ NestEnable(1)
    \/ NestRestore(1)

SpecSuspend == Init /\ [][NextSuspend]_vars

\* C32: on one thread, after k nested DisableLeakDetection / EnableLeakDetection
\* calls followed by k RestoreLeakDetectionState calls, the enabled / disabled state
\* of the thread is the state it had before the first of the calls.
C32_NestedRestoreReturns ==
    (/\ lastOp.op = "RestoreLeakDetectionState"
     /\ lastOp.restores = Len(lastOp.saved))
        => SwitchState(m_tlsMap, lastOp.threadId) = lastOp.saved[1]

(***************************************************************************)
(* The flags of a module, changed by one thread while another refreshes    *)
(* the set of the loaded modules.                                          *)
(***************************************************************************)
\* The return of an operation of the registry. changed and on are history: the
\* module and the argument of the last ChangeModuleState that has returned.
ReturnRegistry(t) ==
    /\ calls[t].pc = "running"
    /\ calls[t].steps = <<>>
    /\ calls' = [calls EXCEPT ![t] = NoOperation]
    /\ lastOp' = [NoOp EXCEPT !.op = calls[t].op, !.threadId = t,
                              !.module = calls[t].module, !.entered = calls[t].entered,
                              !.nested = calls[t].nested, !.line = calls[t].result,
                              !.changed = IF calls[t].op = "ChangeModuleState"
                                          THEN calls[t].module ELSE lastOp.changed,
                              !.on = IF calls[t].op = "ChangeModuleState"
                                     THEN calls[t].on ELSE lastOp.on]
    /\ UNCHANGED <<ledgerVars, m_options, reportLog, memHdr, outVars, threadVars, markSerial,
                   ref, loaderVars, lockVars, moduleVars, loaderLock, hookCall, waiter, exit,
                   locks>>

\* Thread 1 refreshes the set of the loaded modules, thread 2 enables and disables
\* the modules that were loaded when the detector was constructed, and asks whether
\* they are excluded. No module is loaded or unloaded.
NextFlags ==
    \/ Call(1, [NoOperation EXCEPT !.op = "RefreshModules", !.module = App])
    \/ \E module \in AtStart, on \in BOOLEAN :
          Call(2, [NoOperation EXCEPT !.op = "ChangeModuleState", !.module = module,
                                      !.on = on])
    \/ \E module \in AtStart :
          Call(2, [NoOperation EXCEPT !.op = "isModuleExcluded", !.module = module])
    \/ \E t \in Threads : LockerEnter(t)
    \/ \E t \in Threads : LockerLeave(t)
    \/ DoEnumerate(1)
    \/ DoLoader(1)
    \/ \E t \in Threads : DoFind(t)
    \/ \E t \in Threads : DoFlags(t, {})
    \/ DoSwap(1)
    \/ DoDelete(1)
    \/ \E t \in Threads : ReturnRegistry(t)

SpecFlags == Init /\ [][NextFlags]_vars

\* No call of the operation is in progress.
NoneIn(op) == \A t \in Threads : calls[t].op # op

\* C33: once ChangeModuleState(m, on) has returned, with every RefreshModules that
\* ran beside it or after it complete and no other ChangeModuleState in progress,
\* isModuleExcluded for the module returns what the call has set.
C33_FlagUpdateSurvivesRefresh ==
    (/\ lastOp.changed # 0
     /\ NoneIn("ChangeModuleState")
     /\ NoneIn("RefreshModules"))
        => isModuleExcluded(moduleSets[m_loadedModules], lastOp.changed) = ~lastOp.on

(***************************************************************************)
(* Claims of the report's count.                                           *)
(***************************************************************************)
\* The threadId argument of the query or report of the step.
QueriedThread == IF lastOp'.op = "ReportLeaks" THEN AnyThread ELSE lastOp'.threadId

\* C34: the value that ReportLeaks returns is the value that GetLeaksCount returns
\* in the state in which it is called, with VLD_OPT_AGGREGATE_DUPLICATES set or
\* clear, and likewise for ReportThreadLeaks(t) and GetThreadLeaksCount(t).
C34_ReportCountIsLeaksCount ==
    [][lastOp'.op \in {"ReportLeaks", "ReportThreadLeaks"}
          => retval' = GetLeaksCount(Ledger, QueriedThread).result]_vars

(***************************************************************************)
(* Claims of what the report leaves of the ledger.                         *)
(***************************************************************************)
\* The blockinfo_t at p is after the step as it was before it, but for the fields.
SameBut(p, fields) ==
    \A f \in (DOMAIN blockinfos[p]) \ fields : blockinfos'[p][f] = blockinfos[p][f]

\* The report of the step has set the reported flag of the blockinfo_t at p, of a
\* block of the CRT's startup code, with VLD_OPT_SKIP_CRTSTARTUP_LEAKS set.
MarkedStartup(p) ==
    /\ blockinfos'[p].reported
    /\ "VLD_OPT_SKIP_CRTSTARTUP_LEAKS" \in m_options
    /\ blockinfos[p].callStack # NULL
    /\ isCrtStartupAlloc(blockinfos[p].callStack)

\* The report of the step has found the header of the debug CRT in the block of the
\* blockinfo_t at p, and has marked the blockinfo_t.
DetectedCrt(p) ==
    /\ ~blockinfos[p].debugCrtAlloc
    /\ blockinfos'[p].debugCrtAlloc
    /\ \E h \in DOMAIN m_heapMap : \E a \in DOMAIN m_heapMap[h].blockMap :
          /\ m_heapMap[h].blockMap[a] = p
          /\ memHdr[a].valid
          /\ blockinfos'[p].ucrt = memHdr[a].ucrt

\* A second ReportLeaks, called in the state that the step leaves.
ReportedAgain == ReportLeaks(Ledger', AnyThread)

CommitBlock(t, heap, mem, newmem, size) ==
    /\ inCall[t].pc = "idle"
    /\ m_requestCurr <= MaxBlocks
    /\ LET L == IF newmem = NULL
                THEN mapBlock(Ledger, heap, mem, size, FALSE, FALSE, t)
                ELSE remapBlock(Ledger, heap, mem, newmem, size, FALSE, FALSE, t)
       IN /\ SetLedger(L)
          /\ inCall' = [inCall EXCEPT ![t] = [NoCall EXCEPT !.op = "commit", !.pc = "attach",
                                                           !.heap = heap, !.mem = mem,
                                                           !.newmem = newmem,
                                                           !.result = L.pblockInfo]]
    /\ lastOp' = [NoOp EXCEPT !.op = IF newmem = NULL THEN "mapBlock" ELSE "remapBlock",
                              !.heap = heap, !.mem = mem, !.newmem = newmem, !.size = size,
                              !.threadId = t]
    /\ NoOutput
    /\ UNCHANGED <<m_options, memHdr, threadVars, markSerial, ref, loaderVars, g_heapMapLock,
                   serial, moduleVars, processVars>>

\* Lines 2949-2951 of ~CaptureContext on thread t: the stack is captured and attached
\* to the blockinfo_t that pblockInfo points to.
AttachStack(t) ==
    /\ inCall[t].pc = "attach"
    /\ inCall[t].result \in DOMAIN blockinfos
    /\ blockinfos' = [blockinfos EXCEPT ![inCall[t].result].callStack = t]
    /\ inCall' = [inCall EXCEPT ![t] = NoCall]
    /\ lastOp' = [NoOp EXCEPT !.op = "attach", !.threadId = t, !.callStack = t]
    /\ reportLog' = <<>>
    /\ NoOutput
    /\ UNCHANGED <<m_heapMap, m_requestCurr, m_totalAlloc, m_curAlloc, m_maxAlloc, m_options,
                   memHdr, threadVars, markSerial, ref, loaderVars, g_heapMapLock, serial,
                   moduleVars, processVars>>

\* The blocks whose allocating call has returned to the application.
Returned(heap, mem) ==
    /\ Tracked(heap, mem)
    /\ \A t \in Threads : inCall[t].result # m_heapMap[heap].blockMap[mem]

\* Two threads allocating, reallocating in place the blocks that they have, and
\* freeing them, and the report.
NextAttach ==
    \/ \E t \in Threads, h \in OneHeap, a \in Addrs :
          LowestFree(h, a) /\ CommitBlock(t, h, a, NULL, 1)
    \/ \E t \in Threads, h \in OneHeap, a \in Addrs :
          Returned(h, a) /\ CommitBlock(t, h, a, a, 2)
    \/ \E t \in Threads : AttachStack(t)
    \/ \E h \in OneHeap, a \in Addrs : Returned(h, a) /\ UnmapBlock(h, a)
    \/ CallReportLeaks

SpecAttach == Init /\ [][NextAttach]_vars

\* C36: every block for which reportLeaks writes an entry, a live, unreported and
\* unfiltered block, has its call stack attached: the assertion of line 1893 holds.
C36_ReportedBlockHasStack ==
    lastOp.op = "ReportLeaks" =>
        \A i \in DOMAIN leakEntries : \A p \in DOMAIN blockinfos :
            blockinfos[p].serialNumber = leakEntries[i].serialNumber
                => blockinfos[p].callStack # NULL

(***************************************************************************)
(* The peak of the live bytes.                                             *)
(***************************************************************************)
\* C37: m_maxAlloc never decreases, is at least m_curAlloc, and is the largest value
\* that the live bytes (the sum of the sizes of the tracked blocks) have had between
\* ledger operations: each operation leaves it at the larger of its previous value
\* and the live bytes that the operation leaves, collisions of mapBlock included.
C37_MaxAllocIsPeak ==
    [][/\ m_maxAlloc' >= m_maxAlloc
       /\ m_maxAlloc' >= m_curAlloc'
       /\ m_maxAlloc' = (IF LiveBytes' > m_maxAlloc THEN LiveBytes' ELSE m_maxAlloc)]_vars

(***************************************************************************)
(* The order of the locks. Two threads call the operations of the ledger,  *)
(* of the options, of the thread states and of the registry beside each    *)
(* other; a thread that finds a lock owned by the other waits for it.      *)
(***************************************************************************)
\* The threads other than t are in no call or in a call of the family.
Beside(t, family) == \A u \in Threads \ {t} : calls[u].op \in family \cup {"none"}

LedgerFamily == {"mapBlock", "unmapBlock", "remapBlock"}
TlsFamily == OptionCalls \cup {"getTls"}

NextOrder ==
    \/ \E t \in Threads, op \in LedgerFamily :
          /\ Beside(t, LedgerFamily)
          /\ TlsAsConstructed /\ RegistryAsConstructed /\ m_options = {}
          /\ m_requestCurr <= MaxBlocks
          /\ Call(t, [NoOperation EXCEPT !.op = op, !.heap = 1, !.mem = 1, !.newmem = 1,
                                         !.size = 1])
    \/ \E t \in Threads, op \in OptionCalls, option_mask \in TlsMasks :
          /\ Beside(t, TlsFamily)
          /\ LedgerAsConstructed /\ RegistryAsConstructed
          /\ op # "SetOptions" => option_mask = {}
          /\ Call(t, [NoOperation EXCEPT !.op = op, !.option_mask = option_mask])
    \/ \E t \in Threads :
          /\ Beside(t, TlsFamily)
          /\ LedgerAsConstructed /\ RegistryAsConstructed
          /\ Call(t, [NoOperation EXCEPT !.op = "getTls"])
    \/ \E t \in Threads, op \in RegistryCalls, on \in BOOLEAN :
          /\ Beside(t, RegistryCalls)
          /\ LedgerAsConstructed /\ TlsAsConstructed /\ m_options = {}
          /\ op # "ChangeModuleState" => ~on
          /\ Call(t, [NoOperation EXCEPT !.op = op, !.module = App, !.on = on])
    \/ \E t \in Threads : LockerEnter(t)
    \/ \E t \in Threads : LockerLeave(t)
    \/ \E t \in Threads : DoLedger(t)
    \/ \E t \in Threads : DoOptions(t)
    \/ \E t \in Threads : DoTls(t)
    \/ \E t \in Threads : DoEnumerate(t)
    \/ \E t \in Threads : DoLoader(t)
    \/ \E t \in Threads : DoFind(t)
    \/ \E t \in Threads : DoFlags(t, {})
    \/ \E t \in Threads : DoSwap(t)
    \/ \E t \in Threads : DoDelete(t)
    \/ \E t \in Threads : Return(t)

SpecOrder == Init /\ [][NextOrder]_vars

\* The locks that thread t owns.
HeldBy(t) ==
    {l \in Locks : locks[l].owner = t} \cup (IF loaderLock = t THEN {"loaderLock"} ELSE {})

\* The lock that thread t is about to acquire: that of the locker it constructs
\* next, the loader lock at the first line of RefreshModules.
Wanted(t) ==
    IF Running(t, "acquire") THEN Head(calls[t].steps).lock
    ELSE IF Running(t, "enumerate") THEN "loaderLock"
    ELSE "none"

LockOwner(l) == IF l = "loaderLock" THEN loaderLock ELSE locks[l].owner

\* Thread t waits for a lock that another thread owns.
Waiting(t) == Wanted(t) # "none" /\ LockOwner(Wanted(t)) \notin {0, t}

\* An order of the locks.
LockOrder ==
    <<"loaderLock", "g_heapMapLock", "g_DbgHelp", "m_modulesLock", "m_optionsLock", "m_tlsLock">>

ComesBefore(h, l) ==
    \E i, j \in DOMAIN LockOrder : i < j /\ LockOrder[i] = h /\ LockOrder[j] = l

SwitchFrame ==
    /\ reportLog' = <<>>
    /\ NoOutput
    /\ UNCHANGED <<ledgerVars, memHdr, ccStack, suspended, markSerial, ref, loaderVars,
                   g_heapMapLock, serial, moduleVars, processVars>>

\* What the claim about the global switches asks of enabled() on a thread: nothing
\* (0), TRUE (1) or FALSE (2).
Asked(on) == IF on THEN 1 ELSE 2

\* Lines 1220-1230 of enabled on thread t: the detector is installed; getTls; the
\* two bits of the flags and VLD_OPT_START_DISABLED are read. result is the bit to
\* set (1: VLD_TLS_ENABLED, 2: VLD_TLS_DISABLED, 0: none), seen the flags read.
EnabledRead(t) ==
    /\ inCall[t].pc = "idle"
    /\ "VLD_STATUS_INSTALLED" \in m_status
    /\ LET U == getTls(m_tlsMap, t)
           flags == U[t].flags
       IN /\ m_tlsMap' = U
          /\ inCall' = [inCall EXCEPT ![t] =
                [@ EXCEPT !.op = "enabled", !.pc = "decided", !.seen = flags,
                          !.result = IF SwitchBits \cap flags # {} THEN 0
                                     ELSE IF "VLD_OPT_START_DISABLED" \in m_options THEN 2
                                     ELSE 1]]
    /\ lastOp' = [NoOp EXCEPT !.op = "getTls", !.threadId = t]
    /\ SwitchFrame
    /\ UNCHANGED <<m_options, m_status>>

\* Lines 1231-1238 of enabled on thread t: the bit is added to the flags and the
\* call returns whether VLD_TLS_ENABLED is set. The flags that the bit is added to
\* are those of the tls_t now or, when another thread has written them since the
\* call read them, those that the call read (stale). lastOp.result: no global
\* switch has been made since the call began.
EnabledWrite(t, stale) ==
    /\ inCall[t].pc = "decided"
    /\ LET c == inCall[t]
           bit == IF c.result = 1 THEN {"VLD_TLS_ENABLED"}
                  ELSE IF c.result = 2 THEN {"VLD_TLS_DISABLED"} ELSE {}
           base == IF stale THEN c.seen ELSE m_tlsMap[t].flags
           flags == IF bit = {} THEN m_tlsMap[t].flags ELSE base \cup bit
       IN /\ stale => bit # {} /\ c.seen # m_tlsMap[t].flags
          /\ m_tlsMap' = [m_tlsMap EXCEPT ![t].flags = flags]
          /\ lastOp' = [NoOp EXCEPT !.op = "enabled", !.threadId = t,
                                    !.enabled = "VLD_TLS_ENABLED" \in flags,
                                    !.result = c.op = "enabled"]
    /\ inCall' = [inCall EXCEPT ![t] = [NoCall EXCEPT !.expect = inCall[t].expect]]
    /\ SwitchFrame
    /\ UNCHANGED <<m_options, m_status>>

\* GlobalEnableLeakDetection (on) or GlobalDisableLeakDetection, called by thread t.
SwitchAll(t, on) ==
    /\ inCall[t].pc = "idle"
    /\ LET r == IF on THEN GlobalEnableLeakDetection(m_tlsMap, m_options)
                ELSE GlobalDisableLeakDetection(m_tlsMap, m_options)
       IN /\ m_tlsMap' = r.T
          /\ m_options' = r.options
    /\ m_status' = IF on THEN m_status \ {"VLD_STATUS_NEVER_ENABLED"} ELSE m_status
    /\ inCall' = [u \in Threads |->
                    [inCall[u] EXCEPT !.expect = Asked(on),
                                      !.op = IF @ = "enabled" THEN "overlapped" ELSE @]]
    /\ lastOp' = [NoOp EXCEPT !.op = IF on THEN "GlobalEnableLeakDetection"
                                     ELSE "GlobalDisableLeakDetection",
                              !.threadId = t]
    /\ SwitchFrame

\* EnableLeakDetection (on), DisableLeakDetection or RestoreLeakDetectionState (name)
\* called by thread t: the claim about the global switches asks nothing of the
\* thread from here on.
SwitchOne(t, name) ==
    /\ inCall[t].pc = "idle"
    /\ m_tlsMap' = CASE name = "EnableLeakDetection" ->
                           EnableLeakDetection(m_tlsMap, t, m_options)
                     [] name = "DisableLeakDetection" ->
                           DisableLeakDetection(m_tlsMap, t, m_options)
                     [] name = "RestoreLeakDetectionState" ->
                           RestoreLeakDetectionState(m_tlsMap, t, m_options)
    /\ m_status' = IF name = "EnableLeakDetection"
                   THEN m_status \ {"VLD_STATUS_NEVER_ENABLED"} ELSE m_status
    /\ inCall' = [inCall EXCEPT ![t].expect = 0]
    /\ lastOp' = [NoOp EXCEPT !.op = name, !.threadId = t]
    /\ SwitchFrame
    /\ UNCHANGED m_options

NextStates ==
    \/ \E t \in Threads : EnabledRead(t)
    \/ \E t \in Threads, stale \in BOOLEAN : EnabledWrite(t, stale)
    \/ \E t \in Threads, on \in BOOLEAN : SwitchAll(t, on)
    \/ \E t \in Threads :
          \E name \in {"EnableLeakDetection", "DisableLeakDetection",
                       "RestoreLeakDetectionState"} : SwitchOne(t, name)

SpecStates == Init /\ [][NextStates]_vars

\* C39: after GlobalDisableLeakDetection has completed, enabled() returns FALSE on
\* every thread, those whose tls_t is created later included, until the thread
\* switches its own state or GlobalEnableLeakDetection is called; after
\* GlobalEnableLeakDetection it returns TRUE in the same way; and no tls_t has both
\* VLD_TLS_ENABLED and VLD_TLS_DISABLED in its flags.
C39_GlobalSwitchHolds ==
    /\ \A t \in DOMAIN m_tlsMap : ~(SwitchBits \subseteq m_tlsMap[t].flags)
    /\ (lastOp.op = "enabled" /\ lastOp.result) =>
          /\ inCall[lastOp.threadId].expect = 1 => lastOp.enabled
          /\ inCall[lastOp.threadId].expect = 2 => ~lastOp.enabled
====
